---- MODULE Spec2Model ----
(***************************************************************************)
(* SoundStory: the soundscape decision-and-playback engine.                *)
(*                                                                         *)
(*   - the Soundscape Selector (generateSoundscapeSuggestions) and the     *)
(*     Temporal Smoother (applySmoothingLogic) of the sessions route,      *)
(*   - the analyze route with its analysis_logs table,                     *)
(*   - the client-side AudioManager (crossfades, one-shot effects).        *)
(*                                                                         *)
(* Numbers.  Intensities are integers in thousandths (0.9 is 900), so that *)
(* a classifier output with three decimals (0.333, 0.329) exists next to   *)
(* the two-decimal values the smoother produces.  Volumes are integers in  *)
(* units of 1/40000 (0.7 is 28000), so that a 20-step ramp of a 20-step    *)
(* ramp value is still an integer.  JavaScript's doubles are modelled by   *)
(* exact rational arithmetic on these integers.                            *)
(***************************************************************************)
EXTENDS Integers, Sequences, FiniteSets, TLC

VARIABLES
  \* --- smoother / selector, as pure functions applied to drawn inputs
  inCurrent,         \* the classifier's tuple handed to applySmoothingLogic
  inRecent,          \* the window handed to applySmoothingLogic (rows of analysis_logs)
  smoothed,          \* applySmoothingLogic's result, NoResult before it ran
  selection,         \* generateSoundscapeSuggestions' result, NoResult before it ran
  ramp,              \* a fadeIn / fadeOut loop on its own, NoResult when there is none
  \* --- the sessions route and its tables
  routeFile,         \* which of the two sessions route files is registered
  sessions,          \* the sessions table: id -> [endedAt]
  analysisLogs,      \* the analysis_logs table, in timestamp order
  requests,          \* analyze requests in flight: slot -> the handler's locals
  response,          \* the reply sent last
  \* --- the AudioManager singleton and the audio engine under it
  layers,            \* musicLayer and ambienceLayer
  sfxSounds,         \* the handles of the one-shot effects in the active set
  sfxVolume,
  isInitialized,
  sounds,            \* every Sound the engine created: handle -> its state
  calls,             \* the manager operations in flight: caller -> its frame
  returned,          \* what the operation that returned last did
  started,           \* manager operations started so far
  failures,          \* audio-engine calls that failed so far
  audioModeSets,     \* successful Audio.setAudioModeAsync calls of the manager since it
                     \* was last uninitialized
  \* --- the session screen
  screen             \* the recording interval and the processAudioChunk cycles

pureVars == <<inCurrent, inRecent, smoothed, selection, ramp>>
backendVars == <<routeFile, sessions, analysisLogs, requests, response>>
audioVars == <<layers, sfxSounds, sfxVolume, isInitialized, sounds, calls, returned,
               started, failures, audioModeSets, screen>>
vars == <<pureVars, backendVars, audioVars>>

NoResult == [none |-> TRUE]

----------------------------------------------------------------------------
(* Enumerations: AIAnalysisSchema and the Mood / Setting / NarrativeEvent types *)

Mood == {"calm", "mysterious", "tense", "scary", "epic", "cozy", "sad", "whimsical"}
Setting == {"forest", "dungeon", "cave", "castle", "village", "night", "storm", "fantasy", "space"}
NarrativeEvent == {"exploration", "danger", "battle", "magic", "discovery", "resolution"}

----------------------------------------------------------------------------
(* The lookup tables of the selector *)

musicTrackMap ==
  "calm" :> (
      "forest" :> "peaceful-forest-theme" @@
      "dungeon" :> "subtle-dungeon-calm" @@
      "cave" :> "serene-cave-whisper" @@
      "castle" :> "noble-throne-room" @@
      "village" :> "village-morning-bells" @@
      "night" :> "peaceful-night-breeze" @@
      "storm" :> "gentle-rain-meditation" @@
      "fantasy" :> "fantasy-calm-wandering" @@
      "space" :> "ambient-space-drift") @@
  "mysterious" :> (
      "forest" :> "mysterious-forest-secrets" @@
      "dungeon" :> "mysterious-dungeon-theme" @@
      "cave" :> "eerie-cave-mysteries" @@
      "castle" :> "haunted-castle-whispers" @@
      "village" :> "village-twilight-mystery" @@
      "night" :> "dark-night-enigma" @@
      "storm" :> "stormy-mystery-tension" @@
      "fantasy" :> "arcane-fantasy-magic" @@
      "space" :> "cosmic-mystery-unknown") @@
  "tense" :> (
      "forest" :> "tense-forest-danger" @@
      "dungeon" :> "tense-dungeon-chase" @@
      "cave" :> "tense-cave-collapse" @@
      "castle" :> "tense-castle-siege" @@
      "village" :> "tense-village-invasion" @@
      "night" :> "tense-night-hunt" @@
      "storm" :> "intense-storm-brewing" @@
      "fantasy" :> "tense-fantasy-peril" @@
      "space" :> "tense-space-anomaly") @@
  "scary" :> (
      "forest" :> "scary-forest-creatures" @@
      "dungeon" :> "scary-dungeon-horror" @@
      "cave" :> "scary-cave-descent" @@
      "castle" :> "scary-castle-haunted" @@
      "village" :> "scary-village-plague" @@
      "night" :> "scary-night-terror" @@
      "storm" :> "scary-storm-fury" @@
      "fantasy" :> "scary-fantasy-demon" @@
      "space" :> "scary-space-void") @@
  "epic" :> (
      "forest" :> "epic-forest-triumph" @@
      "dungeon" :> "epic-dungeon-conquest" @@
      "cave" :> "epic-cave-victory" @@
      "castle" :> "epic-castle-war" @@
      "village" :> "epic-village-defense" @@
      "night" :> "epic-night-hero" @@
      "storm" :> "epic-storm-power" @@
      "fantasy" :> "epic-fantasy-legend" @@
      "space" :> "epic-space-exploration") @@
  "cozy" :> (
      "forest" :> "cozy-forest-cabin" @@
      "dungeon" :> "cozy-dungeon-fireplace" @@
      "cave" :> "cozy-cave-shelter" @@
      "castle" :> "cozy-castle-library" @@
      "village" :> "cozy-village-tavern" @@
      "night" :> "cozy-night-fireplace" @@
      "storm" :> "cozy-storm-shelter" @@
      "fantasy" :> "cozy-fantasy-hearth" @@
      "space" :> "cozy-space-station") @@
  "sad" :> (
      "forest" :> "sad-forest-solitude" @@
      "dungeon" :> "sad-dungeon-despair" @@
      "cave" :> "sad-cave-mourning" @@
      "castle" :> "sad-castle-loss" @@
      "village" :> "sad-village-farewell" @@
      "night" :> "sad-night-longing" @@
      "storm" :> "sad-storm-sorrow" @@
      "fantasy" :> "sad-fantasy-tragedy" @@
      "space" :> "sad-space-isolation") @@
  "whimsical" :> (
      "forest" :> "whimsical-forest-magic" @@
      "dungeon" :> "whimsical-dungeon-tricks" @@
      "cave" :> "whimsical-cave-wonder" @@
      "castle" :> "whimsical-castle-enchanted" @@
      "village" :> "whimsical-village-festival" @@
      "night" :> "whimsical-night-dreams" @@
      "storm" :> "whimsical-storm-frolics" @@
      "fantasy" :> "whimsical-fantasy-sprites" @@
      "space" :> "whimsical-space-wonders")

ambientTrackMap ==
  "forest" :> (
      "low" :> "forest-light-breeze" @@
      "mid" :> "forest-rustling-leaves" @@
      "high" :> "forest-storm-winds") @@
  "dungeon" :> (
      "low" :> "dungeon-silence-echo" @@
      "mid" :> "dungeon-dripping-water" @@
      "high" :> "dungeon-rumbling-collapse") @@
  "cave" :> (
      "low" :> "cave-peaceful-dripping" @@
      "mid" :> "cave-flowing-water" @@
      "high" :> "cave-quaking-tremor") @@
  "castle" :> (
      "low" :> "castle-quiet-halls" @@
      "mid" :> "castle-torches-flickering" @@
      "high" :> "castle-alarm-bells") @@
  "village" :> (
      "low" :> "village-quiet-morning" @@
      "mid" :> "village-market-bustle" @@
      "high" :> "village-chaos-screams") @@
  "night" :> (
      "low" :> "night-quiet-stars" @@
      "mid" :> "night-crickets-wind" @@
      "high" :> "night-storm-thunder") @@
  "storm" :> (
      "low" :> "storm-distant-rumble" @@
      "mid" :> "storm-heavy-rain" @@
      "high" :> "storm-violent-lightning") @@
  "fantasy" :> (
      "low" :> "fantasy-magical-hum" @@
      "mid" :> "fantasy-spell-casting" @@
      "high" :> "fantasy-arcane-explosion") @@
  "space" :> (
      "low" :> "space-void-silence" @@
      "mid" :> "space-stellar-winds" @@
      "high" :> "space-cosmic-storm")

\* a table whose entries were left empty
sfxMap_EmptyEntry ==
  [e \in NarrativeEvent |-> [b \in {"low", "mid", "high"} |-> <<>>]]

sfxMap ==
  "exploration" :> (
      "low" :> <<"footsteps-careful", "distant-birds", "gentle-ambience">> @@
      "mid" :> <<"footsteps-normal", "item-discovery", "door-opening", "torch-crackling">> @@
      "high" :> <<"footsteps-running", "object-collision", "sudden-gasp", "danger-alert">>) @@
  "danger" :> (
      "low" :> <<"heartbeat-slow", "breathing-heavy", "warning-whisper">> @@
      "mid" :> <<"heartbeat-fast", "weapon-draw", "creature-growl", "chain-rattle">> @@
      "high" :> <<"heartbeat-pounding", "scream-distant", "weapon-clash", "panic-shouting">>) @@
  "battle" :> (
      "low" :> <<"sword-swing", "armor-clink", "grunts-effort">> @@
      "mid" :> <<"sword-clash-combo", "shield-impact", "spellcast", "creature-roar">> @@
      "high" :> <<"massive-explosion", "repeated-clashing", "battle-horns", "critical-hit">>) @@
  "magic" :> (
      "low" :> <<"magic-spark", "spell-whisper", "energy-hum">> @@
      "mid" :> <<"spell-casting-glow", "arcane-surge", "elemental-shift", "magic-shimmer">> @@
      "high" :> <<"explosion-magic", "reality-tear", "power-surge", "cosmic-force">>) @@
  "discovery" :> (
      "low" :> <<"soft-gasp", "gentle-chime", "door-creaks">> @@
      "mid" :> <<"triumphant-horn", "treasure-jingle", "revelation-sound", "door-grand-opens">> @@
      "high" :> <<"celebration-fanfare", "golden-shower", "epic-reveal", "mystical-portal">>) @@
  "resolution" :> (
      "low" :> <<"soft-resolution-music", "peaceful-sigh", "final-bell">> @@
      "mid" :> <<"resolution-completion", "sealing-spell", "victory-chime", "portal-closes">> @@
      "high" :> <<"victory-fanfare", "world-shift", "fate-sealed", "cosmic-reset">>)

AUDIO_TRACKS ==
  {"mysterious-dungeon-theme", "epic-adventure-theme", "calm-peaceful-theme",
   "scary-horror-theme", "cozy-bedtime-theme", "tense-suspense-theme",
   "whimsical-magic-theme", "sad-melancholy-theme", "cave-dripping-water",
   "forest-birds", "night-crickets", "storm-rain",
   "castle-echo", "village-crowd", "space-ambient",
   "wind-howling", "footsteps-stone", "distant-echo",
   "sword-clash", "magic-spell", "door-creak",
   "fire-crackling", "dragon-roar", "treasure-chest"}

----------------------------------------------------------------------------
(* Soundscape Selector *)

\* map[k1]?.[k2] || fallback : undefined (a missing key) and '' are falsy
Lookup(map, k1, k2, fallback) ==
  IF k1 \in DOMAIN map /\ k2 \in DOMAIN map[k1] /\ map[k1][k2] # ""
  THEN map[k1][k2] ELSE fallback

\* sfxOptions?.[intensityRange] || [...] : only a missing key is falsy, [] is not
LookupList(map, k1, k2, fallback) ==
  IF k1 \in DOMAIN map /\ k2 \in DOMAIN map[k1] THEN map[k1][k2] ELSE fallback

intensityRange_LeqBounds(intensity) ==
  IF intensity <= 330 THEN "low" ELSE IF intensity <= 670 THEN "mid" ELSE "high"

\* intensity < 0.33 ? 'low' : intensity < 0.67 ? 'mid' : 'high'
intensityRange(intensity) ==
  IF intensity < 330 THEN "low" ELSE IF intensity < 670 THEN "mid" ELSE "high"

\* the sfx list taken from the event's low entry whatever the intensity
generateSoundscapeSuggestions_SfxLowOnly(mood, setting, intensity, narrativeEvent) ==
  [musicTrack     |-> Lookup(musicTrackMap, mood, setting, "ambient-neutral-theme"),
   ambientTrack   |-> Lookup(ambientTrackMap, setting, intensityRange(intensity), "ambient-neutral"),
   sfxSuggestions |-> LookupList(sfxMap, narrativeEvent, "low", <<"neutral-ambience">>)]

generateSoundscapeSuggestions(mood, setting, intensity, narrativeEvent) ==
  [musicTrack     |-> Lookup(musicTrackMap, mood, setting, "ambient-neutral-theme"),
   ambientTrack   |-> Lookup(ambientTrackMap, setting, intensityRange(intensity), "ambient-neutral"),
   sfxSuggestions |-> LookupList(sfxMap, narrativeEvent, intensityRange(intensity),
                                 <<"neutral-ambience">>)]

----------------------------------------------------------------------------
(* Conversions of the intensity column: intensity.toString(), the
   numeric(3, 2) column that stores it, and parseFloat of the stored text.
   A decimal text is the sequence of its digits: <<units, tenths, hundredths,
   thousandths>> for Number.toString, <<units, tenths, hundredths>> for the
   text a numeric(3, 2) column returns. *)

\* smoothedAnalysis.intensity.toString()
intensityToString(x) ==
  <<x \div 1000, (x \div 100) % 10, (x \div 10) % 10, x % 10>>

\* storing a decimal text in numeric(3, 2): rounded to 2 decimals, half away from zero
numeric32(text) ==
  LET x == text[1] * 1000 + text[2] * 100 + text[3] * 10 + text[4]
      h == (x + 5) \div 10
  IN <<h \div 100, (h \div 10) % 10, h % 10>>

\* parseFloat(a.intensity) of a stored row
parseFloat(text) == text[1] * 1000 + text[2] * 100 + text[3] * 10

----------------------------------------------------------------------------
(* Temporal Smoother *)

\* allX.reduce((acc, x) => { acc[x] = (acc[x] || 0) + 1; return acc }, {}):
\* the object's entries <<key, count>>, in insertion order of the keys
RECURSIVE countReduce(_, _)
countReduce(acc, all) ==
  IF all = <<>> THEN acc
  ELSE LET x == Head(all)
           at == {i \in DOMAIN acc : acc[i][1] = x}
       IN countReduce(IF at = {} THEN Append(acc, <<x, 1>>)
                      ELSE [i \in DOMAIN acc |->
                              IF i \in at THEN <<x, acc[i][2] + 1>> ELSE acc[i]],
                      Tail(all))

\* inserting e into a list sorted by descending count, after every entry
\* whose count is not smaller (Array.prototype.sort is stable)
RECURSIVE insertDesc(_, _)
insertDesc(sorted, e) ==
  IF sorted = <<>> THEN <<e>>
  ELSE IF Head(sorted)[2] >= e[2] THEN <<Head(sorted)>> \o insertDesc(Tail(sorted), e)
  ELSE <<e>> \o sorted

\* entries.sort((a, b) => b[1] - a[1])
RECURSIVE sortDesc(_)
sortDesc(entries) ==
  IF entries = <<>> THEN <<>>
  ELSE insertDesc(sortDesc(SubSeq(entries, 1, Len(entries) - 1)), entries[Len(entries)])

\* the key of a smallest count instead of a largest
majorityVote_Minority(all) ==
  LET entries == countReduce(<<>>, all)
  IN entries[CHOOSE i \in DOMAIN entries :
               \A j \in DOMAIN entries : entries[i][2] <= entries[j][2]][1]

\* Object.entries(counts).sort(...)[0][0]
majorityVote(all) == sortDesc(countReduce(<<>>, all))[1][1]

\* the weight i / k, without the + 1
weights_NoPlusOne(k) == [i \in 1..k |-> (i - 1)]

\* recentAnalyses.map((_, i) => i / recentAnalyses.length + 1), as the
\* numerators over the common denominator k = recentAnalyses.length
weights(k) == [i \in 1..k |-> (i - 1) + k]

RECURSIVE sumSeq(_)
sumSeq(s) == IF s = <<>> THEN 0 ELSE Head(s) + sumSeq(Tail(s))

\* the average cut to thousandths, with no rounding to 2 decimals
roundTo2_Unrounded(num, den) == {num \div den}

\* Math.round(weightedIntensity * 100) / 100 of the rational num / den
\* (thousandths): the nearest hundredth.  Math.round rounds a half up, but
\* the double computed for an average that is exactly a half of a hundredth
\* lies within rounding error of the half, on either side of it: both
\* neighbours are possible results then.
roundTo2(num, den) ==
  LET up == 10 * ((num + 5 * den) \div (10 * den))
  IN IF (num + 5 * den) % (10 * den) = 0 THEN {up - 10, up} ELSE {up}

\* the statements of applySmoothingLogic after its early return
smoothNonEmpty(current, recent) ==
  LET k == Len(recent)
      one == IF k = 0 THEN 1 ELSE k     \* the weight 1 over the common denominator
      w == weights(k)
      totalWeight == sumSeq(w) + one
      weightedSum ==
        sumSeq([i \in 1..k |-> parseFloat(recent[i].intensity) * w[i]])
          + current.intensity * one
  IN { [mood |-> majorityVote([i \in 1..k |-> recent[i].mood] \o <<current.mood>>),
        setting |-> majorityVote([i \in 1..k |-> recent[i].setting] \o <<current.setting>>),
        intensity |-> rounded,
        narrativeEvent |->
          majorityVote([i \in 1..k |-> recent[i].narrativeEvent] \o <<current.narrativeEvent>>),
        soundscapeSuggestions |-> current.soundscapeSuggestions]
       : rounded \in roundTo2(weightedSum, totalWeight) }

\* without the early return for an empty window
applySmoothingLogic_NoEarlyReturn(current, recent) == smoothNonEmpty(current, recent)

\* the set of results the call can return (one, but for a rounding tie)
applySmoothingLogic(current, recent) ==
  IF Len(recent) = 0 THEN {current} ELSE smoothNonEmpty(current, recent)

----------------------------------------------------------------------------
(* The smoother and the selector as pure functions: inputs drawn by Init,
   one action applying the function. *)

Undefined == [undefined |-> TRUE]

\* the route's tables and requests, where only the pure functions are exercised
BackendUnused ==
  /\ routeFile = "none"
  /\ sessions = <<>>
  /\ analysisLogs = <<>>
  /\ requests = <<>>
  /\ response = <<>>

\* the audio manager, where it is not exercised
AudioUnused ==
  /\ layers = <<>>
  /\ sfxSounds = <<>>
  /\ sfxVolume = 0
  /\ isInitialized = FALSE
  /\ sounds = <<>>
  /\ calls = <<>>
  /\ returned = <<>>
  /\ started = 0
  /\ failures = 0
  /\ audioModeSets = 0
  /\ screen = <<>>

\* getRecentAnalysis(app, sessionId, 5): the longest window the route passes
WindowLimit == 5

Row(mood, setting, intensityText, narrativeEvent) ==
  [mood |-> mood, setting |-> setting, intensity |-> intensityText,
   narrativeEvent |-> narrativeEvent]

Tuple(mood, setting, intensity, narrativeEvent) ==
  [mood |-> mood, setting |-> setting, intensity |-> intensity,
   narrativeEvent |-> narrativeEvent, soundscapeSuggestions |-> Undefined]

\* stored rows the window is drawn from
SmoothRows ==
  { Row("calm",  "forest", <<0, 2, 0>>, "exploration"),
    Row("epic",  "castle", <<0, 4, 0>>, "battle"),
    Row("calm",  "castle", <<0, 8, 0>>, "battle"),
    Row("epic",  "forest", <<0, 3, 3>>, "exploration"),
    Row("tense", "castle", <<1, 0, 0>>, "magic") }

\* classifier tuples the current analysis is drawn from
SmoothCurrents ==
  { Tuple("epic",  "castle", 900,  "battle"),
    Tuple("calm",  "forest", 800,  "exploration"),
    Tuple("tense", "night",  333,  "magic"),
    Tuple("epic",  "forest", 5,    "battle"),
    Tuple("calm",  "castle", 1000, "magic") }

SeqsUpTo(S, n) == UNION {[1..m -> S] : m \in 0..n}

InitSmooth ==
  /\ BackendUnused
  /\ AudioUnused
  /\ inCurrent \in SmoothCurrents
  /\ inRecent \in SeqsUpTo(SmoothRows, WindowLimit)
  /\ smoothed = NoResult
  /\ selection = NoResult
  /\ ramp = NoResult

ApplySmoothing ==
  /\ smoothed = NoResult
  /\ smoothed' \in applySmoothingLogic(inCurrent, inRecent)
  /\ UNCHANGED <<inCurrent, inRecent, selection, ramp, backendVars, audioVars>>

NextSmooth == ApplySmoothing

SpecSmooth == InitSmooth /\ [][NextSmooth]_vars

\* intensities around the two bucket boundaries
SelectIntensities == {0, 320, 329, 330, 500, 669, 670, 900, 1000}

InitSelect ==
  /\ BackendUnused
  /\ AudioUnused
  /\ inCurrent \in {Tuple(m, s, i, e) : m \in Mood, s \in Setting,
                                        i \in SelectIntensities, e \in NarrativeEvent}
  /\ inRecent = <<>>
  /\ smoothed = NoResult
  /\ selection = NoResult
  /\ ramp = NoResult

Select ==
  /\ selection = NoResult
  /\ selection' = generateSoundscapeSuggestions(inCurrent.mood, inCurrent.setting,
                                                inCurrent.intensity, inCurrent.narrativeEvent)
  /\ UNCHANGED <<inCurrent, inRecent, smoothed, ramp, backendVars, audioVars>>

NextSelect == Select

SpecSelect == InitSelect /\ [][NextSelect]_vars

----------------------------------------------------------------------------
(* Properties of the smoother *)

\* the sequence a categorical field is voted on: recent followed by current
Combined(f) == [i \in 1..Len(inRecent) |-> inRecent[i][f]] \o <<inCurrent[f]>>

Occurrences(all, v) == Cardinality({i \in DOMAIN all : all[i] = v})

\* the values of all with the highest count
Modes(all) ==
  {all[i] : i \in {i \in DOMAIN all :
                     \A j \in DOMAIN all : Occurrences(all, all[j]) <= Occurrences(all, all[i])}}

LastIndex(all, v) == CHOOSE i \in DOMAIN all : all[i] = v /\ \A j \in DOMAIN all : all[j] = v => j <= i

ClosestToEnd(all) ==
  CHOOSE v \in Modes(all) : \A u \in Modes(all) : LastIndex(all, u) <= LastIndex(all, v)

Categorical == {"mood", "setting", "narrativeEvent"}

\* C1: with an empty window the smoother returns the current tuple itself:
\* mood, setting, intensity (not rounded) and narrativeEvent are unchanged.
C1_SmootherIdentity ==
  (smoothed # NoResult /\ inRecent = <<>>) =>
     /\ smoothed.mood = inCurrent.mood
     /\ smoothed.setting = inCurrent.setting
     /\ smoothed.intensity = inCurrent.intensity
     /\ smoothed.narrativeEvent = inCurrent.narrativeEvent

\* the smoother ran on an empty window and a tuple rounding would change
C1_Witness ==
  smoothed # NoResult /\ inRecent = <<>> /\ inCurrent.intensity % 10 # 0

\* C2: when several values share the highest count of a categorical field,
\* the smoothed value is the tied value closest to the end of recent + current.
C2_TieBreakMostRecent ==
  smoothed # NoResult =>
    \A f \in Categorical :
      Cardinality(Modes(Combined(f))) >= 2 => smoothed[f] = ClosestToEnd(Combined(f))

\* C3: every smoothed categorical field is a value of maximal count in
\* recent + current (so a strict majority value is always the output).
C3_SmootherMajority ==
  smoothed # NoResult =>
    \A f \in Categorical :
      /\ smoothed[f] \in Modes(Combined(f))
      /\ \A v \in Mood \cup Setting \cup NarrativeEvent :
           2 * Occurrences(Combined(f), v) > Len(Combined(f)) => smoothed[f] = v

\* recent = [A, A, B], current = A was smoothed to A, in all three fields
C3_Witness ==
  /\ smoothed # NoResult
  /\ Len(inRecent) = 3
  /\ \A f \in Categorical :
       /\ inRecent[1][f] = inCurrent[f] /\ inRecent[2][f] = inCurrent[f]
       /\ inRecent[3][f] # inCurrent[f]
       /\ smoothed[f] = inCurrent[f]

\* k times the weighted sum of the claim: weight i/k + 1 for the i-th
\* historical sample (0 = oldest), weight 1 for the current one
WeightedSumTimesK ==
  LET k == Len(inRecent)
  IN sumSeq([i \in 1..k |-> parseFloat(inRecent[i].intensity) * ((i - 1) + k)])
       + k * inCurrent.intensity

\* k times the total weight
TotalWeightTimesK ==
  LET k == Len(inRecent) IN sumSeq([i \in 1..k |-> (i - 1) + k]) + k

\* C4: for a non-empty window the smoothed intensity is the weighted
\* average (weights i/k + 1, current 1) rounded to 2 decimals: a whole
\* number of hundredths at most half a hundredth away from the average;
\* and [0.2, 0.4] with current 0.8 gives 0.46.
C4_SmootherIntensity ==
  (smoothed # NoResult /\ Len(inRecent) > 0) =>
     /\ smoothed.intensity % 10 = 0
     /\ (smoothed.intensity - 5) * TotalWeightTimesK <= WeightedSumTimesK
     /\ WeightedSumTimesK <= (smoothed.intensity + 5) * TotalWeightTimesK
     /\ ( /\ Len(inRecent) = 2
          /\ inRecent[1].intensity = <<0, 2, 0>> /\ inRecent[2].intensity = <<0, 4, 0>>
          /\ inCurrent.intensity = 800 ) => smoothed.intensity = 460

\* the example of the claim was smoothed
C4_Witness ==
  /\ smoothed # NoResult
  /\ Len(inRecent) = 2
  /\ inRecent[1].intensity = <<0, 2, 0>> /\ inRecent[2].intensity = <<0, 4, 0>>
  /\ inCurrent.intensity = 800
  /\ smoothed.intensity = 460

----------------------------------------------------------------------------
(* Properties of the selector *)

\* the bucket an intensity belongs to, by the boundaries 0.33 and 0.67
Bucket(intensity) ==
  CHOOSE b \in {"low", "mid", "high"} :
    /\ b = "low" <=> intensity < 330
    /\ b = "mid" <=> (330 <= intensity /\ intensity < 670)
    /\ b = "high" <=> intensity >= 670

\* C6: for every mood, setting, narrativeEvent and intensity the selector
\* returns a non-empty musicTrack, a non-empty ambientTrack and a non-empty
\* list of non-empty sfx ids.
C6_SelectorTotality ==
  selection # NoResult =>
     /\ selection.musicTrack # ""
     /\ selection.ambientTrack # ""
     /\ Len(selection.sfxSuggestions) > 0
     /\ \A i \in DOMAIN selection.sfxSuggestions : selection.sfxSuggestions[i] # ""

\* a selection was computed for the last member of each enumeration at intensity 1
C6_Witness ==
  /\ selection # NoResult
  /\ inCurrent.mood = "whimsical" /\ inCurrent.setting = "space"
  /\ inCurrent.narrativeEvent = "resolution" /\ inCurrent.intensity = 1000
  /\ selection.musicTrack = "whimsical-space-wonders"

\* C7: intensity < 0.33 selects the low ambience and sfx entries,
\* 0.33 <= intensity < 0.67 the mid entries, intensity >= 0.67 the high entries.
C7_BucketBoundaries ==
  selection # NoResult =>
     /\ selection.ambientTrack = ambientTrackMap[inCurrent.setting][Bucket(inCurrent.intensity)]
     /\ selection.sfxSuggestions = sfxMap[inCurrent.narrativeEvent][Bucket(inCurrent.intensity)]

\* 0.33 selected a mid entry that is neither the low nor the high one
C7_Witness ==
  /\ selection # NoResult
  /\ inCurrent.intensity = 330
  /\ inCurrent.setting = "castle"
  /\ selection.ambientTrack = "castle-torches-flickering"

----------------------------------------------------------------------------
(* The sessions route: POST /api/sessions/start, /:sessionId/analyze,
   /:sessionId/end.  The repository holds the route file twice: part_003,
   whose classifier schema has no soundscape and whose handler calls the
   selector, and part_004, whose classifier returns the soundscape itself. *)

RouteFiles == {"part_003", "part_004"}

SessionIds == {"s1", "s2"}

\* the most rows the analysis_logs table grows to
MaxLogs == 4

\* two analyze requests can be in flight at once
Slots == {"a", "b"}

\* a soundscape the classifier of part_004 makes up itself
AISuggestions(music, ambient, sfx) ==
  [musicTrack |-> music, ambientTrack |-> ambient, sfxSuggestions |-> sfx]

\* what the narrator says, with the tuple the classifier returns for it
Narrations ==
  { [transcription |-> "The dragon roars!",
     ai |-> Tuple("epic", "castle", 900, "battle"),
     aiSoundscape |-> AISuggestions("epic-adventure-theme", "castle-echo",
                                    <<"dragon-roar", "sword-clash">>)],
    [transcription |-> "They creep into the crypt",
     ai |-> Tuple("mysterious", "dungeon", 333, "exploration"),
     aiSoundscape |-> AISuggestions("mysterious-dungeon-theme", "cave-dripping-water",
                                    <<"footsteps-stone">>)] }

\* generateObject's result under the schema of the registered route file
aiAnalysis(file, n) ==
  IF file = "part_004" THEN [n.ai EXCEPT !.soundscapeSuggestions = n.aiSoundscape]
  ELSE n.ai

Max(a, b) == IF a >= b THEN a ELSE b

\* select ... where sessionId = ? order by timestamp desc limit ?, reversed
getRecentAnalysis(logs, sessionId, limit) ==
  LET mine == SelectSeq(logs, LAMBDA r : r.sessionId = sessionId)
  IN SubSeq(mine, Max(1, Len(mine) - limit + 1), Len(mine))

\* part_003: smoothing, then the selector on the smoothed fields
smoothedAnalysis(ai, recent) ==
  { [s EXCEPT !.soundscapeSuggestions =
        generateSoundscapeSuggestions(s.mood, s.setting, s.intensity, s.narrativeEvent)]
    : s \in applySmoothingLogic(ai, recent) }

\* part_004: the smoother's result as it is
smoothedAnalysisLegacy(ai, recent) == applySmoothingLogic(ai, recent)

\* the row inserted into analysis_logs
logRow(sessionId, transcription, analysis) ==
  [sessionId |-> sessionId,
   transcription |-> transcription,
   mood |-> analysis.mood,
   setting |-> analysis.setting,
   intensity |-> numeric32(intensityToString(analysis.intensity)),
   narrativeEvent |-> analysis.narrativeEvent,
   soundscapeSuggestions |-> analysis.soundscapeSuggestions]

IdleRequest == [pc |-> "idle"]

NoReply == [status |-> 0]

InitBackend ==
  /\ AudioUnused
  /\ inCurrent = NoResult /\ inRecent = <<>> /\ smoothed = NoResult /\ selection = NoResult
  /\ ramp = NoResult
  /\ routeFile \in RouteFiles
  /\ sessions = <<>>
  /\ analysisLogs = <<>>
  /\ requests = [s \in Slots |-> IdleRequest]
  /\ response = NoReply

\* POST /api/sessions/start
StartSession(sid) ==
  /\ sid \notin DOMAIN sessions
  /\ sessions' = (sid :> [endedAt |-> FALSE]) @@ sessions
  /\ UNCHANGED <<pureVars, audioVars, routeFile, analysisLogs, requests, response>>

\* POST /api/sessions/:sessionId/end
EndSession(sid) ==
  /\ sid \in DOMAIN sessions
  /\ ~sessions[sid].endedAt
  /\ sessions' = [sessions EXCEPT ![sid].endedAt = TRUE]
  /\ UNCHANGED <<pureVars, audioVars, routeFile, analysisLogs, requests, response>>

InFlight == {s \in Slots : requests[s].pc # "idle"}

\* POST /api/sessions/:sessionId/analyze, up to the classifier call:
\* the session lookup (404 when missing) and the window read
AnalyzeBegin(slot, sid, n) ==
  /\ requests[slot].pc = "idle"
  /\ slot = "a" \/ requests["a"].pc # "idle"
  /\ Len(analysisLogs) + Cardinality(InFlight) < MaxLogs
  /\ IF sid \notin DOMAIN sessions
     THEN /\ response' = [status |-> 404, sessionId |-> sid]
          /\ UNCHANGED requests
     ELSE /\ requests' = [requests EXCEPT ![slot] =
                [pc |-> "classify", sessionId |-> sid, narration |-> n,
                 recentAnalyses |-> getRecentAnalysis(analysisLogs, sid, WindowLimit)]]
          /\ UNCHANGED response
  /\ UNCHANGED <<pureVars, audioVars, routeFile, sessions, analysisLogs>>

\* generateObject threw: the handler rethrows, nothing is stored
ClassifierFails(slot) ==
  /\ requests[slot].pc = "classify"
  /\ requests' = [requests EXCEPT ![slot] = IdleRequest]
  /\ response' = [status |-> 500, sessionId |-> requests[slot].sessionId]
  /\ UNCHANGED <<pureVars, audioVars, routeFile, sessions, analysisLogs>>

\* the handler inserting the classifier's tuple instead of the smoothed one
ClassifierReturns_StoresRaw(slot) ==
  /\ requests[slot].pc = "classify"
  /\ LET r == requests[slot]
         ai == aiAnalysis(routeFile, r.narration)
     IN \E analysis \in (IF routeFile = "part_003"
                         THEN smoothedAnalysis(ai, r.recentAnalyses)
                         ELSE smoothedAnalysisLegacy(ai, r.recentAnalyses)) :
          /\ analysisLogs' = Append(analysisLogs,
                [logRow(r.sessionId, r.narration.transcription, analysis) EXCEPT
                   !.mood = ai.mood, !.setting = ai.setting,
                   !.narrativeEvent = ai.narrativeEvent,
                   !.intensity = numeric32(intensityToString(ai.intensity))])
          /\ response' =
                [status |-> 200,
                 sessionId |-> r.sessionId,
                 transcription |-> r.narration.transcription,
                 analysis |-> analysis,
                 savedAnalysis |-> Len(analysisLogs) + 1,
                 ai |-> ai,
                 recentAnalyses |-> r.recentAnalyses]
  /\ requests' = [requests EXCEPT ![slot] = IdleRequest]
  /\ UNCHANGED <<pureVars, audioVars, routeFile, sessions>>

\* generateObject returned: smoothing, (part_003) selection, insert, reply
ClassifierReturns(slot) ==
  /\ requests[slot].pc = "classify"
  /\ LET r == requests[slot]
         ai == aiAnalysis(routeFile, r.narration)
     IN \E analysis \in (IF routeFile = "part_003"
                         THEN smoothedAnalysis(ai, r.recentAnalyses)
                         ELSE smoothedAnalysisLegacy(ai, r.recentAnalyses)) :
          /\ analysisLogs' = Append(analysisLogs,
                                    logRow(r.sessionId, r.narration.transcription, analysis))
          /\ response' =
                [status |-> 200,
                 sessionId |-> r.sessionId,
                 transcription |-> r.narration.transcription,
                 analysis |-> analysis,
                 savedAnalysis |-> Len(analysisLogs) + 1,
                 ai |-> ai,
                 recentAnalyses |-> r.recentAnalyses]
  /\ requests' = [requests EXCEPT ![slot] = IdleRequest]
  /\ UNCHANGED <<pureVars, audioVars, routeFile, sessions>>

NextBackend ==
  \/ \E sid \in SessionIds : StartSession(sid)
  \/ \E sid \in SessionIds : EndSession(sid)
  \/ \E slot \in Slots, sid \in SessionIds, n \in Narrations : AnalyzeBegin(slot, sid, n)
  \/ \E slot \in Slots : ClassifierFails(slot)
  \/ \E slot \in Slots : ClassifierReturns(slot)

SpecBackend == InitBackend /\ [][NextBackend]_vars

\* the limit and offset of a history request: the defaults, and a second page
\* of one row
HistoryPages == {[limit |-> 50, offset |-> 0], [limit |-> 1, offset |-> 1]}

RECURSIVE reverse(_)
reverse(list) ==
  IF list = <<>> THEN <<>> ELSE Append(reverse(Tail(list)), Head(list))

\* select ... where sessionId = ? order by timestamp desc limit ? offset ?
historyPage(logs, sessionId, page) ==
  LET mine == SelectSeq(logs, LAMBDA r : r.sessionId = sessionId)
      newestFirst == reverse(mine)
      last == IF page.offset + page.limit < Len(mine) THEN page.offset + page.limit
              ELSE Len(mine)
  IN [analyses |-> SubSeq(newestFirst, page.offset + 1, last), total |-> Len(mine)]

\* GET /api/sessions/:sessionId/history: 404 for an unknown session, else the
\* count and one page of the session's rows, in chronological order (its
\* three queries are taken in one step: none of them writes)
History(sid, page) ==
  /\ response' =
        IF sid \notin DOMAIN sessions
        THEN [status |-> 404, sessionId |-> sid]
        ELSE LET h == historyPage(analysisLogs, sid, page)
             IN [status |-> 200, sessionId |-> sid, analyses |-> reverse(h.analyses),
                 total |-> h.total]
  /\ UNCHANGED <<pureVars, audioVars, routeFile, sessions, analysisLogs, requests>>

\* the route with its history endpoint
NextStore ==
  \/ NextBackend
  \/ \E sid \in SessionIds, page \in HistoryPages : History(sid, page)

SpecStore == InitBackend /\ [][NextStore]_vars

\* C5: the selection returned to the client and stored with the record is
\* the selector's result on the smoothed mood, setting, intensity and
\* narrativeEvent, in every analyze cycle, the empty-history one included.
C5_SelectionFromSmoothed ==
  response.status = 200 =>
    LET a == response.analysis
        sel == generateSoundscapeSuggestions(a.mood, a.setting, a.intensity, a.narrativeEvent)
    IN /\ a.soundscapeSuggestions = sel
       /\ analysisLogs[response.savedAnalysis].soundscapeSuggestions = sel
----------------------------------------------------------------------------
(* The AudioManager.  Every await of the source is a step boundary: an
   operation in flight is a frame with the place it waits at (pc) and its
   locals, and one action resumes it up to its next await.  The effect of an
   audio-engine call (setVolumeAsync, unloadAsync, createAsync,
   setAudioModeAsync) takes place when the call completes; a call may fail
   instead, and then has no effect. *)

\* const steps = 20
Steps == 20

\* sound: null
NoSound == 0

\* currentTrack: null
NoTrack == ""

\* a volume given in tenths, in units of 1/80000
Vol(tenths) == tenths * 8000

LayerNames == {"music", "ambience"}

musicLayer ==
  [sound |-> NoSound, volume |-> 0, targetVolume |-> Vol(7), isPlaying |-> FALSE,
   currentTrack |-> NoTrack]

ambienceLayer ==
  [sound |-> NoSound, volume |-> 0, targetVolume |-> Vol(5), isPlaying |-> FALSE,
   currentTrack |-> NoTrack]

\* the processAudioChunk cycles that can be in flight together
Cycles == {"c1", "c2"}

\* the callers of the manager: the cycles and the screen's own handlers
Callers == Cycles \cup {"ui"}

\* the manager operations called in a run of the manager alone
MaxCalls == 3

\* the audio-engine calls that fail in a run
MaxFailures == 1

\* the ramp steps at which a setVolumeAsync call can fail: first, middle, last
FailSteps == {0, Steps \div 2, Steps}

IdleFrame == [op |-> "idle"]

NoReturn == [op |-> "none"]

\* the session screen is not part of the run
NoScreen == [mounted |-> FALSE]

\* an operation that takes no selection
NoSuggestions == [musicTrack |-> "", ambientTrack |-> "", sfxSuggestions |-> <<>>]

\* the selections the two route files reply with for a session's first
\* narration, and two of the classifier's (relayed by part_004): one that asks
\* for effects only, one of them unknown to the catalog, and one whose music
\* id alone is unknown to the catalog
AudioSelections ==
  UNION { {a.soundscapeSuggestions : a \in smoothedAnalysis(aiAnalysis("part_003", n), <<>>)}
          \cup {a.soundscapeSuggestions :
                  a \in smoothedAnalysisLegacy(aiAnalysis("part_004", n), <<>>)}
          : n \in Narrations }
  \cup {AISuggestions("", "", <<"dragon-roar", "thunder-crack", "sword-clash">>),
        AISuggestions("epic-battle-theme", "forest-birds", <<"door-creak">>)}

InitAudio ==
  /\ inCurrent = NoResult /\ inRecent = <<>> /\ smoothed = NoResult /\ selection = NoResult
  /\ ramp = NoResult
  /\ BackendUnused
  /\ layers = [music |-> musicLayer, ambience |-> ambienceLayer]
  /\ sfxSounds = <<>>
  /\ sfxVolume = Vol(6)
  /\ isInitialized = FALSE
  /\ sounds = <<>>
  /\ calls = [c \in Callers |-> IdleFrame]
  /\ returned = NoReturn
  /\ started = 0
  /\ failures = 0
  /\ audioModeSets = 0
  /\ screen = NoScreen

\* the manager as constructed: nothing loaded, nothing created
Fresh ==
  /\ layers = [music |-> musicLayer, ambience |-> ambienceLayer]
  /\ sounds = <<>>
  /\ sfxSounds = <<>>

\* the track id a frame's crossfade is about
newTrackId(f) ==
  IF f.layer = "music" THEN f.suggestions.musicTrack ELSE f.suggestions.ambientTrack

\* an operation rejects: the exception leaves it towards its caller
throws(f) == [f EXCEPT !.pc = "throw", !.failed = TRUE, !.h = NoSound, !.i = 0,
                        !.volumeStep = 0]

\* crossfadeTrack's try / catch with nothing caught
crossfadeEnds_Rethrow(f, L, outcome) ==
  IF outcome \in {"alreadyPlaying", "notFound", "done"}
  THEN [f EXCEPT !.pc = "cf_return", !.layer = L, !.outcome = outcome,
                 !.h = NoSound, !.i = 0, !.volumeStep = 0, !.parts[L] = outcome]
  ELSE throws(f)

\* crossfadeTrack returns (an early return, its normal end, or its catch);
\* the locals of its fades are gone, and the call keeps in parts how the
\* crossfade of each layer ended
crossfadeEnds(f, L, outcome) ==
  [f EXCEPT !.pc = "cf_return", !.layer = L, !.outcome = outcome,
            !.h = NoSound, !.i = 0, !.volumeStep = 0, !.parts[L] = outcome,
            !.failed = f.failed \/ outcome \in {"fadeOutFailed", "unloadFailed",
                                                "createFailed", "fadeInFailed"}]

\* an audio-engine call of a frame throws: inside crossfadeTrack's try it is
\* caught; stopAll and cleanup have no try
raise(f, outcome) ==
  IF f.op = "updateSoundscape" THEN crossfadeEnds(f, f.layer, outcome) ELSE throws(f)

\* fadeOut up to its first setVolumeAsync (layer.sound is not null here)
fadeOut(f, L) ==
  [f EXCEPT !.pc = "fo_set", !.layer = L, !.h = layers[L].sound, !.i = Steps,
            !.volumeStep = layers[L].volume \div Steps]

\* what crossfadeTrack finds when it is called
atEntry(f, L) ==
  [f EXCEPT !.layer = L, !.h = NoSound,
            !.entry = [layer |-> layers[L], created |-> Len(sounds),
                       sound |-> IF layers[L].sound = NoSound THEN <<>>
                                 ELSE sounds[layers[L].sound]]]

\* crossfadeTrack without the already-playing return
crossfadeTrack_NoShortcut(f, L, trackId) ==
  IF trackId \notin AUDIO_TRACKS
  THEN crossfadeEnds(atEntry(f, L), L, "notFound")
  ELSE IF layers[L].sound # NoSound
  THEN fadeOut(atEntry(f, L), L)
  ELSE [atEntry(f, L) EXCEPT !.pc = "cf_create"]

\* crossfadeTrack unloading the old sound without fading it out
crossfadeTrack_NoFadeOut(f, L, trackId) ==
  IF layers[L].currentTrack = trackId /\ layers[L].isPlaying
  THEN crossfadeEnds(atEntry(f, L), L, "alreadyPlaying")
  ELSE IF trackId \notin AUDIO_TRACKS
  THEN crossfadeEnds(atEntry(f, L), L, "notFound")
  ELSE IF layers[L].sound # NoSound
  THEN [atEntry(f, L) EXCEPT !.pc = "cf_unload", !.h = layers[L].sound]
  ELSE [atEntry(f, L) EXCEPT !.pc = "cf_create"]

\* crossfadeTrack creating the new sound with the old one left as it is
crossfadeTrack_KeepOld(f, L, trackId) ==
  IF layers[L].currentTrack = trackId /\ layers[L].isPlaying
  THEN crossfadeEnds(atEntry(f, L), L, "alreadyPlaying")
  ELSE IF trackId \notin AUDIO_TRACKS
  THEN crossfadeEnds(atEntry(f, L), L, "notFound")
  ELSE [atEntry(f, L) EXCEPT !.pc = "cf_create"]

\* crossfadeTrack up to its first await
crossfadeTrack(f, L, trackId) ==
  IF layers[L].currentTrack = trackId /\ layers[L].isPlaying
  THEN crossfadeEnds(atEntry(f, L), L, "alreadyPlaying")
  ELSE IF trackId \notin AUDIO_TRACKS
  THEN crossfadeEnds(atEntry(f, L), L, "notFound")
  ELSE IF layers[L].sound # NoSound
  THEN fadeOut(atEntry(f, L), L)
  ELSE [atEntry(f, L) EXCEPT !.pc = "cf_create"]

\* playSoundEffect up to its await, for the k-th suggested effect
playSoundEffect(f, k) ==
  IF f.suggestions.sfxSuggestions[k] \notin AUDIO_TRACKS
  THEN [f EXCEPT !.pc = "sfx_return", !.k = k]
  ELSE [f EXCEPT !.pc = "sfx_create", !.k = k, !.vol = sfxVolume]

\* the loop over sfxSuggestions given up at the first id that is not in the catalog
sfxStage_StopsAtUnresolved(f, k) ==
  IF k > Len(f.suggestions.sfxSuggestions)
     \/ f.suggestions.sfxSuggestions[k] \notin AUDIO_TRACKS
  THEN [f EXCEPT !.pc = "return"]
  ELSE playSoundEffect(f, k)

\* the for loop over sfxSuggestions, from its k-th element
sfxStage(f, k) ==
  IF k > Len(f.suggestions.sfxSuggestions)
  THEN [f EXCEPT !.pc = "return"]
  ELSE playSoundEffect(f, k)

ambienceStage(f) ==
  IF f.suggestions.ambientTrack # ""
  THEN crossfadeTrack(f, "ambience", f.suggestions.ambientTrack)
  ELSE sfxStage(f, 1)

musicStage(f) ==
  IF f.suggestions.musicTrack # ""
  THEN crossfadeTrack(f, "music", f.suggestions.musicTrack)
  ELSE ambienceStage(f)

\* updateSoundscape up to its first await
updateSoundscape(f) ==
  IF ~isInitialized THEN [f EXCEPT !.pc = "init_mode"] ELSE musicStage(f)

\* initialize up to its await
initialize(f) ==
  IF isInitialized THEN [f EXCEPT !.pc = "return"] ELSE [f EXCEPT !.pc = "init_mode"]

\* the array a stopAll call's loop iterates: the one this.sfxSounds referred
\* to when the loop began.  push changes it in place; a finish callback makes
\* this.sfxSounds refer to a new array and leaves the loop with the old one
iterated(f) == IF f.array.live THEN sfxSounds ELSE f.array.list

\* stopAll's loop over sfxSounds, from its k-th element; after the loop
\* sfxSounds = [] (the loop reads its array as it is when each step is taken)
stopSfx(f, k, sfx) ==
  IF k > Len(sfx)
  THEN [f EXCEPT !.pc = "return"]
  ELSE [f EXCEPT !.pc = "sa_sfx_unload", !.k = k, !.h = sfx[k]]

\* stopAll from the ambience layer on, up to its next await
stopAmbience(f) ==
  IF layers["ambience"].sound # NoSound THEN fadeOut(f, "ambience")
  ELSE stopSfx(f, 1, sfxSounds)

\* stopAll up to its first await
stopAll(f) ==
  IF layers["music"].sound # NoSound THEN fadeOut(f, "music")
  ELSE stopAmbience(f)

\* the array stopAll's for-of loop iterates is the one this.sfxSounds refers to
Live == [live |-> TRUE, list |-> <<>>]

\* no crossfadeTrack call of the operation has ended
NoParts == [music |-> "", ambience |-> ""]

\* the frame of an operation when it is called
Frame(op, s) ==
  [op |-> op, pc |-> "", suggestions |-> s, layer |-> "music", h |-> NoSound, i |-> 0,
   volumeStep |-> 0, k |-> 0, vol |-> 0, outcome |-> "", fresh |-> Fresh,
   wasInitialized |-> isInitialized, failed |-> FALSE, entry |-> <<>>,
   created |-> Len(sounds), sfxFailed |-> {}, parts |-> NoParts, array |-> Live]

\* an injected failure of an audio-engine call; in a run of the session
\* screen the failures injected are those of the audio-mode setup at mount
MayFail ==
  /\ failures < MaxFailures
  /\ screen.mounted => ~screen.audioInitialized

\* a sound after unloadAsync: out of the engine, with no volume any more
unloaded(sound) == [sound EXCEPT !.isLoaded = FALSE, !.volume = 0]

\* updateSoundscape is called: up to its first await
UpdateSoundscape(c, s) ==
  /\ calls[c].op = "idle"
  /\ started < MaxCalls
  /\ started' = started + 1
  /\ returned' = NoReturn
  /\ calls' = [calls EXCEPT ![c] = updateSoundscape(Frame("updateSoundscape", s))]
  /\ UNCHANGED <<layers, sfxSounds, sfxVolume, isInitialized, sounds, failures>>
  /\ UNCHANGED <<pureVars, backendVars, audioModeSets, screen>>

\* initialize is called: up to its await
Initialize(c) ==
  /\ calls[c].op = "idle"
  /\ started < MaxCalls
  /\ started' = started + 1
  /\ returned' = NoReturn
  /\ calls' = [calls EXCEPT ![c] = initialize(Frame("initialize", NoSuggestions))]
  /\ UNCHANGED <<layers, sfxSounds, sfxVolume, isInitialized, sounds, failures>>
  /\ UNCHANGED <<pureVars, backendVars, audioModeSets, screen>>

\* stopAll, or cleanup (which awaits stopAll first), is called: up to its first await
StopAll(c, op) ==
  /\ calls[c].op = "idle"
  /\ started < MaxCalls
  /\ started' = started + 1
  /\ returned' = NoReturn
  /\ calls' = [calls EXCEPT ![c] = stopAll(Frame(op, NoSuggestions))]
  /\ sfxSounds' = IF calls'[c].pc = "return" THEN <<>> ELSE sfxSounds
  /\ UNCHANGED <<layers, sfxVolume, isInitialized, sounds, failures>>
  /\ UNCHANGED <<pureVars, backendVars, audioModeSets, screen>>

\* initialize: Audio.setAudioModeAsync completes or throws (caught and logged)
SetAudioModeResumes(c) ==
  /\ calls[c].op # "idle" /\ calls[c].pc = "init_mode"
  /\ LET after(f) == IF f.op = "updateSoundscape" THEN musicStage(f)
                     ELSE [f EXCEPT !.pc = "return"]
     IN \/ /\ isInitialized' = TRUE
           /\ audioModeSets' = audioModeSets + 1
           /\ calls' = [calls EXCEPT ![c] = after(calls[c])]
           /\ UNCHANGED failures
        \/ /\ MayFail
           /\ failures' = failures + 1
           /\ calls' = [calls EXCEPT ![c] = after([calls[c] EXCEPT !.failed = TRUE])]
           /\ UNCHANGED <<isInitialized, audioModeSets>>
  /\ UNCHANGED <<layers, sfxSounds, sfxVolume, sounds, returned, started>>
  /\ UNCHANGED <<pureVars, backendVars, screen>>

\* fadeOut / fadeIn: setVolumeAsync(volumeStep * i) completes, layer.volume is
\* set and the step's timer is started; or the call throws
FadeVolumeSet(c) ==
  /\ calls[c].op # "idle" /\ calls[c].pc \in {"fo_set", "fi_set"}
  /\ LET f == calls[c]
         volume == f.volumeStep * f.i
     IN \/ /\ sounds[f.h].isLoaded
           /\ sounds' = [sounds EXCEPT ![f.h].volume = volume]
           /\ layers' = [layers EXCEPT ![f.layer].volume = volume]
           /\ calls' = [calls EXCEPT ![c].pc = IF f.pc = "fo_set" THEN "fo_sleep" ELSE "fi_sleep"]
           /\ UNCHANGED failures
        \/ /\ ~sounds[f.h].isLoaded \/ (MayFail /\ f.i \in FailSteps)
           /\ failures' = IF sounds[f.h].isLoaded THEN failures + 1 ELSE failures
           /\ calls' = [calls EXCEPT ![c] =
                 raise(f, IF f.pc = "fo_set" THEN "fadeOutFailed" ELSE "fadeInFailed")]
           /\ UNCHANGED <<sounds, layers>>
  /\ UNCHANGED <<sfxSounds, sfxVolume, isInitialized, returned, started>>
  /\ UNCHANGED <<pureVars, backendVars, audioModeSets, screen>>

\* the timer of a ramp step fires: the next step's setVolumeAsync is called,
\* or the ramp is over (fadeOut: unloadAsync is called; fadeIn: crossfadeTrack ends).
\* layer.sound is read again each time: null makes the call throw a TypeError
FadeTimerFires(c) ==
  /\ calls[c].op # "idle" /\ calls[c].pc \in {"fo_sleep", "fi_sleep"}
  /\ LET f == calls[c]
         L == f.layer
     IN calls' = [calls EXCEPT ![c] =
          IF f.pc = "fo_sleep"
          THEN IF layers[L].sound = NoSound
               THEN raise(f, IF f.i > 0 THEN "fadeOutFailed" ELSE "unloadFailed")
               ELSE IF f.i > 0
               THEN [f EXCEPT !.pc = "fo_set", !.i = f.i - 1, !.h = layers[L].sound]
               ELSE [f EXCEPT !.pc = IF f.op = "updateSoundscape" THEN "cf_unload"
                                     ELSE "sa_unload",
                              !.h = layers[L].sound]
          ELSE IF f.i >= Steps THEN crossfadeEnds(f, L, "done")
               ELSE IF layers[L].sound = NoSound THEN raise(f, "fadeInFailed")
               ELSE [f EXCEPT !.pc = "fi_set", !.i = f.i + 1, !.h = layers[L].sound]]
  /\ UNCHANGED <<layers, sfxSounds, sfxVolume, isInitialized, sounds, returned, started,
                 failures>>
  /\ UNCHANGED <<pureVars, backendVars, audioModeSets, screen>>

\* crossfadeTrack: the old sound's unloadAsync completes, layer.sound = null,
\* and createAsync is called; or unloadAsync throws
UnloadResumes(c) ==
  /\ calls[c].op # "idle" /\ calls[c].pc = "cf_unload"
  /\ LET f == calls[c]
     IN \/ /\ sounds' = [sounds EXCEPT ![f.h] = unloaded(@)]
           /\ layers' = [layers EXCEPT ![f.layer].sound = NoSound]
           /\ calls' = [calls EXCEPT ![c].pc = "cf_create"]
           /\ UNCHANGED failures
        \/ /\ MayFail
           /\ failures' = failures + 1
           /\ calls' = [calls EXCEPT ![c] = raise(f, "unloadFailed")]
           /\ UNCHANGED <<sounds, layers>>
  /\ UNCHANGED <<sfxSounds, sfxVolume, isInitialized, returned, started>>
  /\ UNCHANGED <<pureVars, backendVars, audioModeSets, screen>>

\* crossfadeTrack: createAsync completes (a looping sound playing at volume 0),
\* the layer takes it, and fadeIn calls its first setVolumeAsync; or createAsync throws
CreateResumes(c) ==
  /\ calls[c].op # "idle" /\ calls[c].pc = "cf_create"
  /\ LET f == calls[c]
         L == f.layer
         sound == Len(sounds) + 1
     IN \/ /\ sounds' = Append(sounds, [track |-> newTrackId(f), volume |-> 0,
                                        isLoaded |-> TRUE, isLooping |-> TRUE,
                                        owner |-> L])
           /\ layers' = [layers EXCEPT ![L].sound = sound,
                                       ![L].currentTrack = newTrackId(f),
                                       ![L].isPlaying = TRUE]
           /\ calls' = [calls EXCEPT ![c] =
                 [f EXCEPT !.pc = "fi_set", !.h = sound, !.i = 0,
                           !.volumeStep = layers[L].targetVolume \div Steps]]
           /\ UNCHANGED failures
        \/ /\ MayFail
           /\ failures' = failures + 1
           /\ calls' = [calls EXCEPT ![c] = raise(f, "createFailed")]
           /\ UNCHANGED <<sounds, layers>>
  /\ UNCHANGED <<sfxSounds, sfxVolume, isInitialized, returned, started>>
  /\ UNCHANGED <<pureVars, backendVars, audioModeSets, screen>>

\* a crossfade that did not bring its track: the id is not in the catalog, or
\* an audio-engine call of the crossfade failed
PartFailed == {"notFound", "fadeOutFailed", "unloadFailed", "createFailed", "fadeInFailed"}

\* updateSoundscape giving up the selection after a crossfade that did not
\* bring its track
CrossfadeReturns_GivesUp(c) ==
  /\ calls[c].op # "idle" /\ calls[c].pc = "cf_return"
  /\ LET f == [calls[c] EXCEPT !.entry = <<>>, !.outcome = ""]
     IN calls' = [calls EXCEPT ![c] =
          IF calls[c].outcome \in PartFailed THEN [f EXCEPT !.pc = "return"]
          ELSE IF f.layer = "music" THEN ambienceStage(f) ELSE sfxStage(f, 1)]
  /\ UNCHANGED <<layers, sfxSounds, sfxVolume, isInitialized, sounds, returned, started,
                 failures>>
  /\ UNCHANGED <<pureVars, backendVars, audioModeSets, screen>>

\* updateSoundscape resumes after a crossfadeTrack call
CrossfadeReturns(c) ==
  /\ calls[c].op # "idle" /\ calls[c].pc = "cf_return"
  /\ LET f == [calls[c] EXCEPT !.entry = <<>>, !.outcome = ""]
     IN calls' = [calls EXCEPT ![c] =
          IF f.layer = "music" THEN ambienceStage(f) ELSE sfxStage(f, 1)]
  /\ UNCHANGED <<layers, sfxSounds, sfxVolume, isInitialized, sounds, returned, started,
                 failures>>
  /\ UNCHANGED <<pureVars, backendVars, audioModeSets, screen>>

\* playSoundEffect with the sfx volume read when createAsync completes
SfxCreateResumes_ReadsAtLoad(c) ==
  /\ calls[c].op # "idle" /\ calls[c].pc = "sfx_create"
  /\ sounds' = Append(sounds, [track |-> calls[c].suggestions.sfxSuggestions[calls[c].k],
                               volume |-> sfxVolume, isLoaded |-> TRUE,
                               isLooping |-> FALSE, owner |-> "sfx", finished |-> FALSE])
  /\ sfxSounds' = Append(sfxSounds, Len(sounds) + 1)
  /\ calls' = [calls EXCEPT ![c].pc = "sfx_return"]
  /\ UNCHANGED <<layers, sfxVolume, isInitialized, returned, started, failures>>
  /\ UNCHANGED <<pureVars, backendVars, audioModeSets, screen>>

\* playSoundEffect: createAsync completes (a one-shot playing at the sfx volume
\* read when it was called) and the sound joins sfxSounds; or createAsync throws
SfxCreateResumes(c) ==
  /\ calls[c].op # "idle" /\ calls[c].pc = "sfx_create"
  /\ LET f == calls[c]
     IN \/ /\ sounds' = Append(sounds, [track |-> f.suggestions.sfxSuggestions[f.k],
                                        volume |-> f.vol, isLoaded |-> TRUE,
                                        isLooping |-> FALSE, owner |-> "sfx",
                                        finished |-> FALSE])
           /\ sfxSounds' = Append(sfxSounds, Len(sounds) + 1)
           /\ calls' = [calls EXCEPT ![c].pc = "sfx_return"]
           /\ UNCHANGED failures
        \/ /\ MayFail
           /\ failures' = failures + 1
           /\ calls' = [calls EXCEPT ![c].pc = "sfx_return", ![c].failed = TRUE,
                                     ![c].sfxFailed = @ \cup {f.k}]
           /\ UNCHANGED <<sounds, sfxSounds>>
  /\ UNCHANGED <<layers, sfxVolume, isInitialized, returned, started>>
  /\ UNCHANGED <<pureVars, backendVars, audioModeSets, screen>>

\* updateSoundscape resumes after a playSoundEffect call
SfxReturns(c) ==
  /\ calls[c].op # "idle" /\ calls[c].pc = "sfx_return"
  /\ calls' = [calls EXCEPT ![c] = sfxStage(calls[c], calls[c].k + 1)]
  /\ UNCHANGED <<layers, sfxSounds, sfxVolume, isInitialized, sounds, returned, started,
                 failures>>
  /\ UNCHANGED <<pureVars, backendVars, audioModeSets, screen>>

\* what an operation leaves to its caller when it is over
Outcome(f, threw) ==
  [op |-> f.op, suggestions |-> f.suggestions, fresh |-> f.fresh,
   wasInitialized |-> f.wasInitialized, failed |-> f.failed, threw |-> threw,
   created |-> f.created, sfxFailed |-> f.sfxFailed, parts |-> f.parts]

\* updateSoundscape returns to its caller (in a processAudioChunk cycle, the
\* cycle is over with it)
UpdateSoundscapeReturns(c) ==
  /\ calls[c].op = "updateSoundscape" /\ calls[c].pc = "return"
  /\ returned' = Outcome(calls[c], FALSE)
  /\ calls' = [calls EXCEPT ![c] = IdleFrame]
  /\ UNCHANGED <<layers, sfxSounds, sfxVolume, isInitialized, sounds, started, failures>>
  /\ UNCHANGED <<pureVars, backendVars, audioModeSets, screen>>

\* initialize returns to its caller
InitializeReturns(c) ==
  /\ calls[c].op = "initialize" /\ calls[c].pc = "return"
  /\ returned' = Outcome(calls[c], FALSE)
  /\ calls' = [calls EXCEPT ![c] = IdleFrame]
  /\ UNCHANGED <<layers, sfxSounds, sfxVolume, isInitialized, sounds, started, failures>>
  /\ UNCHANGED <<pureVars, backendVars, audioModeSets, screen>>

\* stopAll: the layer's unloadAsync completes, the layer is reset, and stopAll
\* goes on to the ambience layer or to the effects; or unloadAsync throws
StopUnloadResumes(c) ==
  /\ calls[c].op # "idle" /\ calls[c].pc = "sa_unload"
  /\ LET f == calls[c]
     IN \/ /\ sounds' = [sounds EXCEPT ![f.h] = unloaded(@)]
           /\ layers' = [layers EXCEPT ![f.layer].sound = NoSound,
                                       ![f.layer].isPlaying = FALSE,
                                       ![f.layer].currentTrack = NoTrack]
           /\ calls' = [calls EXCEPT ![c] =
                 IF f.layer = "music" THEN stopAmbience(f) ELSE stopSfx(f, 1, sfxSounds)]
           /\ sfxSounds' = IF calls'[c].pc = "return" THEN <<>> ELSE sfxSounds
           /\ UNCHANGED failures
        \/ /\ MayFail
           /\ failures' = failures + 1
           /\ calls' = [calls EXCEPT ![c] = throws(f)]
           /\ UNCHANGED <<sounds, layers, sfxSounds>>
  /\ UNCHANGED <<sfxVolume, isInitialized, returned, started>>
  /\ UNCHANGED <<pureVars, backendVars, audioModeSets, screen>>

\* stopAll: an effect's unloadAsync completes and the loop goes on; after the
\* last one sfxSounds = []; or unloadAsync throws
StopSfxUnloadResumes(c) ==
  /\ calls[c].op # "idle" /\ calls[c].pc = "sa_sfx_unload"
  /\ LET f == calls[c]
     IN \/ /\ sounds' = [sounds EXCEPT ![f.h] = unloaded(@)]
           /\ calls' = [calls EXCEPT ![c] = stopSfx(f, f.k + 1, iterated(f))]
           /\ sfxSounds' = IF calls'[c].pc = "return" THEN <<>> ELSE sfxSounds
           /\ UNCHANGED failures
        \/ /\ MayFail
           /\ failures' = failures + 1
           /\ calls' = [calls EXCEPT ![c] = throws(f)]
           /\ UNCHANGED <<sounds, sfxSounds>>
  /\ UNCHANGED <<layers, sfxVolume, isInitialized, returned, started>>
  /\ UNCHANGED <<pureVars, backendVars, audioModeSets, screen>>

\* cleanup returning without isInitialized = false
StopAllReturns_StaysInitialized(c) ==
  /\ calls[c].op \in {"stopAll", "cleanup"} /\ calls[c].pc = "return"
  /\ returned' = Outcome(calls[c], FALSE)
  /\ calls' = [calls EXCEPT ![c] = IdleFrame]
  /\ UNCHANGED <<layers, sfxSounds, sfxVolume, sounds, started, failures, isInitialized>>
  /\ UNCHANGED <<pureVars, backendVars, screen, audioModeSets>>

\* stopAll returns; in cleanup, isInitialized = false follows and cleanup returns
StopAllReturns(c) ==
  /\ calls[c].op \in {"stopAll", "cleanup"} /\ calls[c].pc = "return"
  /\ returned' = Outcome(calls[c], FALSE)
  /\ calls' = [calls EXCEPT ![c] = IdleFrame]
  /\ isInitialized' = IF calls[c].op = "cleanup" THEN FALSE ELSE isInitialized
  /\ audioModeSets' = IF calls[c].op = "cleanup" THEN 0 ELSE audioModeSets
  /\ UNCHANGED <<layers, sfxSounds, sfxVolume, sounds, started, failures>>
  /\ UNCHANGED <<pureVars, backendVars, screen>>

\* an operation rejects towards its caller (stopAll; cleanup with it, before
\* it has set isInitialized)
OperationThrows(c) ==
  /\ calls[c].op # "idle" /\ calls[c].pc = "throw"
  /\ returned' = Outcome(calls[c], TRUE)
  /\ calls' = [calls EXCEPT ![c] = IdleFrame]
  /\ UNCHANGED <<layers, sfxSounds, sfxVolume, isInitialized, sounds, started, failures>>
  /\ UNCHANGED <<pureVars, backendVars, audioModeSets, screen>>

\* an updateSoundscape or initialize call in flight takes its next step
Resume(c) ==
  \/ SetAudioModeResumes(c)
  \/ FadeVolumeSet(c)
  \/ FadeTimerFires(c)
  \/ UnloadResumes(c)
  \/ CreateResumes(c)
  \/ CrossfadeReturns(c)
  \/ SfxCreateResumes(c)
  \/ SfxReturns(c)
  \/ UpdateSoundscapeReturns(c)

\* a stopAll or cleanup call in flight takes a step of its own
ResumeStop(c) ==
  \/ StopUnloadResumes(c)
  \/ StopSfxUnloadResumes(c)
  \/ StopAllReturns(c)
  \/ OperationThrows(c)

\* the calls of the manager one after the other: each returns before the next
NextAudio ==
  \/ \E s \in AudioSelections : UpdateSoundscape("c1", s)
  \/ Initialize("c1")
  \/ \E op \in {"stopAll", "cleanup"} : StopAll("c1", op)
  \/ Resume("c1")
  \/ ResumeStop("c1")
  \/ InitializeReturns("c1")

SpecAudio == InitAudio /\ [][NextAudio]_vars

----------------------------------------------------------------------------
(* The session screen: it initializes the manager when it mounts, and while
   recording a 5 s interval starts a processAudioChunk cycle at every tick,
   whatever the cycles started before are doing. *)

\* the processAudioChunk cycles started in a run
MaxCycles == 2

\* suggestions of the classifier that the analyze route of part_004 relays
\* (its schema takes any strings, any list)
SessionSelections ==
  { AISuggestions("epic-adventure-theme", "", <<>>),
    AISuggestions("mysterious-dungeon-theme", "", <<"dragon-roar">>) }

InitSession ==
  /\ inCurrent = NoResult /\ inRecent = <<>> /\ smoothed = NoResult /\ selection = NoResult
  /\ ramp = NoResult
  /\ BackendUnused
  /\ layers = [music |-> musicLayer, ambience |-> ambienceLayer]
  /\ sfxSounds = <<>>
  /\ sfxVolume = Vol(6)
  /\ isInitialized = FALSE
  /\ sounds = <<>>
  /\ calls = [c \in Callers |->
                IF c = "ui"
                THEN [Frame("initializeAudio", NoSuggestions) EXCEPT
                        !.pc = "init_mode", !.fresh = TRUE]
                ELSE IdleFrame]
  /\ returned = NoReturn
  /\ started = 0
  /\ failures = 0
  /\ audioModeSets = 0
  /\ screen = [mounted |-> TRUE, audioInitialized |-> FALSE, interval |-> FALSE,
               captured |-> FALSE, issued |-> <<>>]

\* initializeAudio: audioManager.initialize() has returned, setAudioInitialized(true)
InitializeAudioReturns(c) ==
  /\ calls[c].op = "initializeAudio" /\ calls[c].pc = "return"
  /\ screen' = [screen EXCEPT !.audioInitialized = TRUE]
  /\ returned' = Outcome(calls[c], FALSE)
  /\ calls' = [calls EXCEPT ![c] = IdleFrame]
  /\ UNCHANGED <<layers, sfxSounds, sfxVolume, isInitialized, sounds, started, failures>>
  /\ UNCHANGED <<pureVars, backendVars, audioModeSets>>

\* startRecording: the interval is set; its callback keeps the
\* processAudioChunk, and with it the audioInitialized, of the render it was made in
StartRecording ==
  /\ screen.mounted /\ ~screen.interval
  /\ screen' = [screen EXCEPT !.interval = TRUE, !.captured = screen.audioInitialized]
  /\ UNCHANGED <<layers, sfxSounds, sfxVolume, isInitialized, sounds, calls, returned,
                 started, failures, audioModeSets>>
  /\ UNCHANGED <<pureVars, backendVars>>

\* the interval fires: processAudioChunk up to the transcription request
IntervalFires(c) ==
  /\ screen.mounted /\ screen.interval
  /\ calls[c].op = "idle"
  /\ c = "c1" \/ calls["c1"].op # "idle"
  /\ started < MaxCycles
  /\ started' = started + 1
  /\ calls' = [calls EXCEPT ![c] =
        [Frame("processAudioChunk", NoSuggestions) EXCEPT !.pc = "transcribe"]]
  /\ UNCHANGED <<layers, sfxSounds, sfxVolume, isInitialized, sounds, returned, failures>>
  /\ UNCHANGED <<pureVars, backendVars, audioModeSets, screen>>

\* processAudioChunk: the transcription arrives and the analyze request is
\* sent; or the transcription request failed, or the text is empty, and the
\* cycle is skipped
TranscribeResumes(c) ==
  /\ calls[c].op = "processAudioChunk" /\ calls[c].pc = "transcribe"
  /\ \/ calls' = [calls EXCEPT ![c].pc = "analyze"]
     \/ calls' = [calls EXCEPT ![c].pc = "skipped", ![c].outcome = "transcription"]
  /\ UNCHANGED <<layers, sfxSounds, sfxVolume, isInitialized, sounds, returned, started,
                 failures>>
  /\ UNCHANGED <<pureVars, backendVars, audioModeSets, screen>>

\* the analyze route storing its record before the classifier has answered
AnalyzeResumes_StoresFirst(c, s) ==
  /\ calls[c].op = "processAudioChunk" /\ calls[c].pc = "analyze"
  /\ analysisLogs' = Append(analysisLogs, [sessionId |-> "s1", soundscapeSuggestions |-> s])
  /\ calls' = [calls EXCEPT ![c].pc = "skipped", ![c].outcome = "classifier"]
  /\ UNCHANGED <<layers, sfxSounds, sfxVolume, isInitialized, sounds, returned, started,
                 failures>>
  /\ UNCHANGED <<pureVars, routeFile, sessions, requests, response, audioModeSets, screen>>

\* processAudioChunk: the analyze route has stored its record and the analysis
\* arrives with its suggestions s; if audioInitialized, updateSoundscape(s) is
\* called (up to its first await), else the cycle is over.  Or the classifier
\* failed: the route has stored nothing, the request fails and the cycle is skipped
AnalyzeResumes(c, s) ==
  /\ calls[c].op = "processAudioChunk" /\ calls[c].pc = "analyze"
  /\ \/ /\ analysisLogs' = Append(analysisLogs,
                                  [sessionId |-> "s1", soundscapeSuggestions |-> s])
        /\ IF screen.captured
           THEN /\ calls' = [calls EXCEPT ![c] =
                               updateSoundscape(Frame("updateSoundscape", s))]
                /\ screen' = [screen EXCEPT !.issued = Append(screen.issued, s)]
           ELSE /\ calls' = [calls EXCEPT ![c] = IdleFrame]
                /\ UNCHANGED screen
     \/ /\ calls' = [calls EXCEPT ![c].pc = "skipped", ![c].outcome = "classifier"]
        /\ UNCHANGED <<screen, analysisLogs>>
  /\ UNCHANGED <<layers, sfxSounds, sfxVolume, isInitialized, sounds, returned, started,
                 failures>>
  /\ UNCHANGED <<pureVars, routeFile, sessions, requests, response, audioModeSets>>

\* processAudioChunk: a skipped cycle is over (the early return, or the catch)
CycleSkipped(c) ==
  /\ calls[c].op = "processAudioChunk" /\ calls[c].pc = "skipped"
  /\ calls' = [calls EXCEPT ![c] = IdleFrame]
  /\ UNCHANGED <<layers, sfxSounds, sfxVolume, isInitialized, sounds, returned, started,
                 failures>>
  /\ UNCHANGED <<pureVars, backendVars, audioModeSets, screen>>

NextSession ==
  \/ \E c \in Callers : InitializeAudioReturns(c)
  \/ StartRecording
  \/ \E c \in Cycles : IntervalFires(c)
  \/ \E c \in Cycles : TranscribeResumes(c)
  \/ \E c \in Cycles, s \in SessionSelections : AnalyzeResumes(c, s)
  \/ \E c \in Cycles : CycleSkipped(c)
  \/ \E c \in Callers : Resume(c)

SpecSession == InitSession /\ [][NextSession]_vars

----------------------------------------------------------------------------
(* The volume controls: the screen's sliders call setMusicVolume,
   setAmbienceVolume and setSfxVolume while the cycle's updateSoundscape may
   be in flight. *)

\* the volumes the sliders are set to
VolumeInputs == {Vol(3), Vol(10)}

\* the selections applied while the volumes are set
VolumeSelections ==
  { AISuggestions("mysterious-dungeon-theme", "", <<"dragon-roar">>),
    AISuggestions("epic-adventure-theme", "forest-birds", <<>>) }

SetOp(L) == IF L = "music" THEN "setMusicVolume" ELSE "setAmbienceVolume"

SetOps == {SetOp(L) : L \in LayerNames}

OtherLayer(L) == IF L = "music" THEN "ambience" ELSE "music"

\* what a volume call leaves to its caller when it is over
VolumeOutcome(f, threw) ==
  [op |-> f.op, layer |-> f.layer, vol |-> f.vol, h |-> f.h, threw |-> threw]

\* setMusicVolume / setAmbienceVolume is called: targetVolume is set; with no
\* sound on the layer the call is over, else sound.setVolumeAsync is called
SetLayerVolume(c, L, v) ==
  /\ calls[c].op = "idle"
  /\ started < MaxCalls
  /\ started' = started + 1
  /\ layers' = [layers EXCEPT ![L].targetVolume = v]
  /\ LET f == [Frame(SetOp(L), NoSuggestions) EXCEPT
                 !.pc = "sv_set", !.layer = L, !.vol = v, !.h = layers[L].sound]
     IN IF layers[L].sound = NoSound
        THEN /\ returned' = VolumeOutcome(f, FALSE)
             /\ UNCHANGED calls
        ELSE /\ returned' = NoReturn
             /\ calls' = [calls EXCEPT ![c] = f]
  /\ UNCHANGED <<sfxSounds, sfxVolume, isInitialized, sounds, failures>>
  /\ UNCHANGED <<pureVars, backendVars, audioModeSets, screen>>

\* setVolumeAsync completes with layer.volume left as it was
SetVolumeResumes_OutputOnly(c) ==
  /\ calls[c].op \in SetOps /\ calls[c].pc = "sv_set"
  /\ LET f == calls[c]
     IN /\ sounds[f.h].isLoaded
        /\ sounds' = [sounds EXCEPT ![f.h].volume = f.vol]
        /\ returned' = VolumeOutcome(f, FALSE)
  /\ calls' = [calls EXCEPT ![c] = IdleFrame]
  /\ UNCHANGED <<layers, failures, sfxSounds, sfxVolume, isInitialized, started>>
  /\ UNCHANGED <<pureVars, backendVars, audioModeSets, screen>>

\* setMusicVolume / setAmbienceVolume: setVolumeAsync completes, layer.volume
\* is set and the call returns; or setVolumeAsync throws (the sound has been
\* unloaded meanwhile, or the engine fails) and the call rejects
SetVolumeResumes(c) ==
  /\ calls[c].op \in SetOps /\ calls[c].pc = "sv_set"
  /\ LET f == calls[c]
     IN \/ /\ sounds[f.h].isLoaded
           /\ sounds' = [sounds EXCEPT ![f.h].volume = f.vol]
           /\ layers' = [layers EXCEPT ![f.layer].volume = f.vol]
           /\ returned' = VolumeOutcome(f, FALSE)
           /\ UNCHANGED failures
        \/ /\ ~sounds[f.h].isLoaded \/ MayFail
           /\ failures' = IF sounds[f.h].isLoaded THEN failures + 1 ELSE failures
           /\ returned' = VolumeOutcome(f, TRUE)
           /\ UNCHANGED <<sounds, layers>>
  /\ calls' = [calls EXCEPT ![c] = IdleFrame]
  /\ UNCHANGED <<sfxSounds, sfxVolume, isInitialized, started>>
  /\ UNCHANGED <<pureVars, backendVars, audioModeSets, screen>>

\* setSfxVolume: this.sfxVolume = volume
SetSfxVolume(c, v) ==
  /\ calls[c].op = "idle"
  /\ started < MaxCalls
  /\ started' = started + 1
  /\ sfxVolume' = v
  /\ returned' = [op |-> "setSfxVolume", vol |-> v, threw |-> FALSE]
  /\ UNCHANGED <<layers, sfxSounds, isInitialized, sounds, calls, failures>>
  /\ UNCHANGED <<pureVars, backendVars, audioModeSets, screen>>

\* updateSoundscape calls one after the other, the sliders moved at any time
NextVolume ==
  \/ \E s \in VolumeSelections : UpdateSoundscape("c1", s)
  \/ Resume("c1")
  \/ \E L \in LayerNames, v \in VolumeInputs : SetLayerVolume("ui", L, v)
  \/ SetVolumeResumes("ui")
  \/ \E v \in VolumeInputs : SetSfxVolume("ui", v)

SpecVolume == InitAudio /\ [][NextVolume]_vars

----------------------------------------------------------------------------
(* The one-shot effects: a sound of sfxSounds plays to its end, and the
   callback playSoundEffect has set on it unloads it and takes it out of
   sfxSounds; the screen's End Session calls stopAll while the cycle's
   updateSoundscape may be starting effects. *)

\* selections of effects only
SfxSelections ==
  { AISuggestions("", "", <<"dragon-roar", "sword-clash", "door-creak">>),
    AISuggestions("", "", <<"magic-spell">>) }

\* the status update of an effect that has played to its end: the callback
\* calls sound.unloadAsync() (not awaited) and this.sfxSounds = the array
\* filtered, a new array; a stopAll loop under way keeps the old one
SfxFinishes(h) ==
  /\ h \in DOMAIN sounds
  /\ sounds[h].owner = "sfx"
  /\ sounds[h].isLoaded
  /\ sounds' = [sounds EXCEPT ![h] = [unloaded(@) EXCEPT !.finished = TRUE]]
  /\ sfxSounds' = SelectSeq(sfxSounds, LAMBDA s : s # h)
  /\ calls' = [c \in Callers |->
        IF /\ calls[c].op \in {"stopAll", "cleanup"}
           /\ calls[c].pc = "sa_sfx_unload"
           /\ calls[c].array.live
        THEN [calls[c] EXCEPT !.array = [live |-> FALSE, list |-> sfxSounds]]
        ELSE calls[c]]
  /\ UNCHANGED <<layers, sfxVolume, isInitialized, returned, started, failures>>
  /\ UNCHANGED <<pureVars, backendVars, audioModeSets, screen>>

NextSfx ==
  \/ \E s \in SfxSelections : UpdateSoundscape("c1", s)
  \/ SetAudioModeResumes("c1")
  \/ SfxCreateResumes("c1")
  \/ SfxReturns("c1")
  \/ UpdateSoundscapeReturns("c1")
  \/ StopAll("ui", "stopAll")
  \/ StopSfxUnloadResumes("ui")
  \/ StopAllReturns("ui")
  \/ OperationThrows("ui")
  \/ \E h \in DOMAIN sounds : SfxFinishes(h)

SpecSfx == InitAudio /\ [][NextSfx]_vars

----------------------------------------------------------------------------
(* The end of a session: the End Session button stops the recording, awaits
   audioManager.stopAll() and leaves the screen; the screen's unmount calls
   audioManager.cleanup().  A processAudioChunk cycle started before goes on
   on its own. *)

InitTeardown ==
  /\ inCurrent = NoResult /\ inRecent = <<>> /\ smoothed = NoResult /\ selection = NoResult
  /\ ramp = NoResult
  /\ BackendUnused
  /\ layers = [music |-> musicLayer, ambience |-> ambienceLayer]
  /\ sfxSounds = <<>>
  /\ sfxVolume = Vol(6)
  /\ isInitialized = FALSE
  /\ sounds = <<>>
  /\ calls = [c \in Callers |->
                IF c = "ui"
                THEN [Frame("initializeAudio", NoSuggestions) EXCEPT
                        !.pc = "init_mode", !.fresh = TRUE]
                ELSE IdleFrame]
  /\ returned = NoReturn
  /\ started = 0
  /\ failures = 0
  /\ audioModeSets = 0
  /\ screen = [mounted |-> TRUE, audioInitialized |-> FALSE, interval |-> FALSE,
               captured |-> FALSE, issued |-> <<>>, teardown |-> "none"]

\* End Session is confirmed: stopRecording clears the interval and awaits the
\* recorder
HandleEndSession ==
  /\ screen.mounted /\ screen.teardown = "none"
  /\ calls["ui"].op = "idle"
  /\ screen' = [screen EXCEPT !.interval = FALSE, !.teardown = "stopAll"]
  /\ calls' = [calls EXCEPT !["ui"] =
        [Frame("handleEndSession", NoSuggestions) EXCEPT !.pc = "stop_recording"]]
  /\ UNCHANGED <<layers, sfxSounds, sfxVolume, isInitialized, sounds, returned, started,
                 failures>>
  /\ UNCHANGED <<pureVars, backendVars, audioModeSets>>

\* handleEndSession: the recording has stopped, audioManager.stopAll() is
\* called (up to its first await)
RecordingStops ==
  /\ calls["ui"].op = "handleEndSession" /\ calls["ui"].pc = "stop_recording"
  /\ calls' = [calls EXCEPT !["ui"] = stopAll(Frame("stopAll", NoSuggestions))]
  /\ sfxSounds' = IF calls'["ui"].pc = "return" THEN <<>> ELSE sfxSounds
  /\ UNCHANGED <<layers, sfxVolume, isInitialized, sounds, returned, started, failures>>
  /\ UNCHANGED <<pureVars, backendVars, audioModeSets, screen>>

\* the screen unmounts (router.back() after End Session, or the user leaves):
\* the effect's cleanup clears the interval and calls audioManager.cleanup(),
\* which calls stopAll (up to its first await)
Unmount ==
  /\ screen.mounted
  /\ calls["ui"].op = "idle"
  /\ screen' = [screen EXCEPT !.mounted = FALSE, !.interval = FALSE, !.teardown = "cleanup"]
  /\ calls' = [calls EXCEPT !["ui"] = stopAll(Frame("cleanup", NoSuggestions))]
  /\ sfxSounds' = IF calls'["ui"].pc = "return" THEN <<>> ELSE sfxSounds
  /\ UNCHANGED <<layers, sfxVolume, isInitialized, sounds, returned, started, failures>>
  /\ UNCHANGED <<pureVars, backendVars, audioModeSets>>

\* the cycles started before the session is ended
TeardownCycles == 1

\* the screen with one cycle, whose updateSoundscape finds the layers without
\* a sound (no fade-out, no unload in its crossfade), and the teardown
NextTeardown ==
  \/ InitializeAudioReturns("ui")
  \/ StartRecording
  \/ started < TeardownCycles /\ IntervalFires("c1")
  \/ TranscribeResumes("c1")
  \/ \E s \in SessionSelections : AnalyzeResumes("c1", s)
  \/ CycleSkipped("c1")
  \/ \E c \in {"c1", "ui"} : SetAudioModeResumes(c)
  \/ \E c \in {"c1", "ui"} : FadeVolumeSet(c)
  \/ \E c \in {"c1", "ui"} : FadeTimerFires(c)
  \/ CreateResumes("c1")
  \/ CrossfadeReturns("c1")
  \/ SfxCreateResumes("c1")
  \/ SfxReturns("c1")
  \/ UpdateSoundscapeReturns("c1")
  \/ HandleEndSession
  \/ RecordingStops
  \/ Unmount
  \/ ResumeStop("ui")

SpecTeardown == InitTeardown /\ [][NextTeardown]_vars

----------------------------------------------------------------------------
(* The ramps of fadeIn and fadeOut in the arithmetic of the language: a volume
   is a number, an IEEE 754 double.  A positive double is its 53-bit
   significand m (three limbs of 18 bits, most significant first) and the
   exponent e of its last bit: the number is m * 2^e.  The doubles of a ramp
   are far from the subnormal and the overflow range. *)

\* the bits of a double's significand
SignificandBits == 53

\* a significand is held in three limbs of 18 bits, most significant first
LimbBase == 262144

\* the top limb of a 53-bit significand is a 17-bit number
TopLimb == 131072

\* bits appended to a dividend, for the quotient to have its rounding bits
GuardBits == 10

Zero == [m |-> <<>>, e |-> 0]

\* the quotient and the remainder of a limb sequence by a small divisor
RECURSIVE LimbDiv(_, _, _)
LimbDiv(limbs, d, r) ==
  IF limbs = <<>> THEN [q |-> <<>>, r |-> r]
  ELSE LET r1 == r * LimbBase + Head(limbs)
           rec == LimbDiv(Tail(limbs), d, r1 % d)
       IN [q |-> <<r1 \div d>> \o rec.q, r |-> rec.r]

\* the product of a limb sequence and a small factor, one limb longer
RECURSIVE LimbTimes(_, _, _)
LimbTimes(limbs, k, carry) ==
  IF limbs = <<>> THEN <<carry>>
  ELSE LET n == Len(limbs)
           p == limbs[n] * k + carry
       IN Append(LimbTimes(SubSeq(limbs, 1, n - 1), k, p \div LimbBase), p % LimbBase)

\* the last three limbs of a sequence
Low3(limbs) == SubSeq(limbs, Len(limbs) - 2, Len(limbs))

\* the limbs hold a number below 2^53
Fits(limbs) ==
  /\ \A i \in 1..(Len(limbs) - 3) : limbs[i] = 0
  /\ limbs[Len(limbs) - 2] < TopLimb

\* a significand plus one
PlusOne(m) ==
  IF m[3] + 1 < LimbBase THEN <<m[1], m[2], m[3] + 1>>
  ELSE IF m[2] + 1 < LimbBase THEN <<m[1], m[2] + 1, 0>>
  ELSE <<m[1] + 1, 0, 0>>

\* the double nearest to limbs * 2^e (plus less than one unit of the last
\* place when sticky), ties to even; the limbs hold a number of 53 bits or more
Round(limbs, e, sticky) ==
  LET s == CHOOSE s \in 0..(2 * GuardBits) :
             /\ Fits(LimbDiv(limbs, 2^s, 0).q)
             /\ \A t \in 0..(s - 1) : ~Fits(LimbDiv(limbs, 2^t, 0).q)
      dv == LimbDiv(limbs, 2^s, 0)
      m == Low3(dv.q)
      up == \/ 2 * dv.r > 2^s
            \/ 2 * dv.r = 2^s /\ (sticky \/ m[3] % 2 = 1)
  IN IF ~up THEN [m |-> m, e |-> e + s]
     ELSE IF PlusOne(m)[1] = TopLimb THEN [m |-> <<TopLimb \div 2, 0, 0>>, e |-> e + s + 1]
     ELSE [m |-> PlusOne(m), e |-> e + s]

\* x / d for a double x and a small integer d
Divide(x, d) ==
  IF x = Zero THEN Zero
  ELSE LET dv == LimbDiv(LimbTimes(x.m, 2^GuardBits, 0), d, 0)
       IN Round(dv.q, x.e - GuardBits, dv.r # 0)

\* x * k for a double x and a small integer k
Times(x, k) == IF x = Zero \/ k = 0 THEN Zero ELSE Round(LimbTimes(x.m, k, 0), x.e, FALSE)

\* a small positive integer as a double
Integer(n) ==
  LET t == CHOOSE t \in 0..16 : TopLimb \div 2 <= n * 2^t /\ n * 2^t < TopLimb
  IN [m |-> <<n * 2^t, 0, 0>>, e |-> 0 - (t + 36)]

\* the number literal n / d of a decimal fraction
Number(n, d) == Divide(Integer(n), d)

\* x <= y
Leq(x, y) ==
  \/ x = Zero
  \/ /\ y # Zero
     /\ \/ x.e < y.e
        \/ /\ x.e = y.e
           /\ \/ x.m = y.m
              \/ \E i \in 1..3 : x.m[i] < y.m[i] /\ \A j \in 1..(i - 1) : x.m[j] = y.m[j]

\* the hundredths a volume is drawn from
MaxPercent == 100

\* the volumes a ramp spans: a layer's targetVolume, or the volume it has
RampSpans == {Number(p, 100) : p \in 1..MaxPercent}

\* fadeIn / fadeOut up to the first setVolumeAsync
InitRamp ==
  /\ BackendUnused
  /\ AudioUnused
  /\ inCurrent = NoResult /\ inRecent = <<>> /\ smoothed = NoResult /\ selection = NoResult
  /\ \E span \in RampSpans, kind \in {"fadeIn", "fadeOut"} :
       ramp = [kind |-> kind, span |-> span, volumeStep |-> Divide(span, Steps),
               i |-> IF kind = "fadeIn" THEN 0 ELSE Steps,
               applied |-> 0, volume |-> Zero, previous |-> Zero]

\* one iteration of the loop: volume = volumeStep * i is applied
RampStep ==
  /\ ramp.applied <= Steps
  /\ ramp' = [ramp EXCEPT !.volume = Times(ramp.volumeStep, ramp.i),
                          !.previous = ramp.volume,
                          !.applied = @ + 1,
                          !.i = IF ramp.kind = "fadeIn" THEN @ + 1 ELSE @ - 1]
  /\ UNCHANGED <<inCurrent, inRecent, smoothed, selection, backendVars, audioVars>>

NextRamp == RampStep

SpecRamp == InitRamp /\ [][NextRamp]_vars

\* the selection of a session's first tuple epic / castle / 0.9 / battle
FirstSelection == generateSoundscapeSuggestions("epic", "castle", 900, "battle")

\* a layer is Idle: no sound, not playing
Idle(L) == layers[L].sound = NoSound /\ ~layers[L].isPlaying

\* a layer is Steady on a track: its sound is loaded, it is playing, at target volume
Steady(L, track) ==
  /\ layers[L].sound # NoSound
  /\ sounds[layers[L].sound].isLoaded
  /\ sounds[layers[L].sound].track = track
  /\ sounds[layers[L].sound].volume = layers[L].targetVolume
  /\ layers[L].isPlaying
  /\ layers[L].currentTrack = track
  /\ layers[L].volume = layers[L].targetVolume

\* the one-shot sounds started for an effect id
Started(sfxId) == {h \in DOMAIN sounds : sounds[h].track = sfxId /\ ~sounds[h].isLooping}

\* C9: when updateSoundscape has returned from applying the selection of the
\* first tuple epic / castle / 0.9 / battle to a fresh manager, no audio-engine
\* call having failed, the music and the ambience layer are Steady on the
\* selected tracks and each listed sfx id was started exactly once.
C9_EndToEnd ==
  ( /\ returned.op = "updateSoundscape"
    /\ returned.suggestions = FirstSelection
    /\ returned.fresh
    /\ ~returned.failed )
  => /\ Steady("music", FirstSelection.musicTrack)
     /\ Steady("ambience", FirstSelection.ambientTrack)
     /\ \A k \in DOMAIN FirstSelection.sfxSuggestions :
          Cardinality(Started(FirstSelection.sfxSuggestions[k])) = 1

\* C10: when crossfadeTrack returns after createAsync failed, the layer has
\* no sound, isPlaying is false and currentTrack is null.
C10_LoadFailureLeavesIdle ==
  \A c \in Callers :
    ( /\ calls[c].op = "updateSoundscape"
      /\ calls[c].pc = "cf_return"
      /\ calls[c].outcome = "createFailed" )
    => /\ layers[calls[c].layer].sound = NoSound
       /\ ~layers[calls[c].layer].isPlaying
       /\ layers[calls[c].layer].currentTrack = NoTrack

\* C11: updateSoundscape never rejects: whatever audio-engine calls fail
\* during it (audio-mode setup, setVolumeAsync, unloadAsync, createAsync), no
\* exception leaves the call and the call returns normally.
C11_NeverPropagates ==
  /\ \A c \in Callers : calls[c].op = "updateSoundscape" => calls[c].pc # "throw"
  /\ returned.op = "updateSoundscape" => ~returned.threw

C11_Witness ==
  /\ returned.op = "updateSoundscape"
  /\ returned.failed
  /\ ~returned.threw

\* C12: when crossfadeTrack returns for a music or ambience id that is not in
\* the playable catalog, the layer holds a sound loaded during that call (a
\* neutral default), it is not left as it was.
C12_UnresolvedFallsBack ==
  \A c \in Callers :
    ( /\ calls[c].op = "updateSoundscape"
      /\ calls[c].pc = "cf_return"
      /\ calls[c].outcome = "notFound" )
    => LET layer == layers[calls[c].layer]
       IN /\ layer.sound > calls[c].entry.created
          /\ sounds[layer.sound].isLoaded
          /\ layer # calls[c].entry.layer

\* the layer of a frame's crossfade was Steady on the requested track when
\* crossfadeTrack was called
SteadyAtEntry(f) ==
  /\ f.entry.layer.currentTrack = newTrackId(f)
  /\ f.entry.layer.isPlaying
  /\ f.entry.layer.sound # NoSound
  /\ f.entry.sound.isLoaded
  /\ f.entry.sound.volume = f.entry.layer.targetVolume
  /\ f.entry.layer.volume = f.entry.layer.targetVolume

\* the places of a crossfade at which a fade, an unload or a load is under way
CrossfadeWork == {"fo_set", "fo_sleep", "cf_unload", "cf_create", "fi_set", "fi_sleep"}

\* C13: an updateSoundscape call whose id for a layer is the track the layer
\* is Steady on does no fade, no unload and no load on that layer, and leaves
\* the layer's sound, volume, currentTrack and isPlaying (and every sound) as
\* they were.
C13_NoOpOnSameSelection ==
  \A c \in Callers :
    (calls[c].op = "updateSoundscape" /\ calls[c].entry # <<>> /\ SteadyAtEntry(calls[c]))
    => /\ calls[c].pc \notin CrossfadeWork
       /\ calls[c].pc = "cf_return" =>
            /\ calls[c].outcome = "alreadyPlaying"
            /\ layers[calls[c].layer] = calls[c].entry.layer
            /\ sounds[layers[calls[c].layer].sound] = calls[c].entry.sound
            /\ Len(sounds) = calls[c].entry.created

C13_Witness ==
  \E c \in Callers :
    /\ calls[c].op = "updateSoundscape"
    /\ calls[c].pc = "cf_return"
    /\ SteadyAtEntry(calls[c])
    /\ calls[c].outcome = "alreadyPlaying"

\* the sound the layer held when the frame's crossfade was called
OldSound(f) == f.entry.layer.sound

\* C14: within one crossfade, while the old sound is faded out and unloaded no
\* new sound exists yet; the old sound is at volume 0 when unloadAsync is
\* called and unloaded when createAsync is under way; and the fade-in ramp
\* runs on the sound createAsync returned, which the layer holds, starting
\* from volume 0.
C14_CrossfadeOrdering ==
  \A c \in Callers :
    calls[c].op = "updateSoundscape" =>
      LET f == calls[c]
      IN /\ f.pc \in {"fo_set", "fo_sleep", "cf_unload"} =>
              /\ OldSound(f) # NoSound
              /\ sounds[OldSound(f)].isLoaded
              /\ Len(sounds) = f.entry.created
         /\ f.pc = "cf_unload" => sounds[OldSound(f)].volume = 0
         /\ (f.pc = "cf_create" /\ OldSound(f) # NoSound) =>
              /\ ~sounds[OldSound(f)].isLoaded
              /\ Len(sounds) = f.entry.created
         /\ f.pc \in {"fi_set", "fi_sleep"} =>
              /\ f.h > f.entry.created
              /\ layers[f.layer].sound = f.h
              /\ sounds[f.h].isLoaded
              /\ sounds[f.h].track = newTrackId(f)
              /\ (f.pc = "fi_set" /\ f.i = 0) => sounds[f.h].volume = 0
              /\ OldSound(f) # NoSound => ~sounds[OldSound(f)].isLoaded

C14_Witness ==
  \E c \in Callers :
    /\ calls[c].op = "updateSoundscape"
    /\ calls[c].pc = "fi_set" /\ calls[c].i = 0
    /\ OldSound(calls[c]) # NoSound

\* the sounds created for a layer that are loaded and above volume 0
Audible(L) ==
  {h \in DOMAIN sounds : sounds[h].owner = L /\ sounds[h].isLoaded /\ sounds[h].volume > 0}

\* C15: with the calls of the manager one after the other, each persistent
\* layer has at most one loaded sound above volume 0 in every state.
C15_OneAudiblePerLayer == \A L \in LayerNames : Cardinality(Audible(L)) <= 1

C15_Witness ==
  \E c \in Callers :
    /\ calls[c].op = "updateSoundscape"
    /\ calls[c].pc = "fi_sleep"
    /\ OldSound(calls[c]) # NoSound
    /\ calls[c].entry.sound.volume > 0
    /\ Audible(calls[c].layer) = {calls[c].h}

\* the processAudioChunk cycles in flight (up to the end of their updateSoundscape)
CyclesInFlight == {c \in Cycles : calls[c].op \in {"processAudioChunk", "updateSoundscape"}}

\* C16: the session screen has at most one processAudioChunk cycle in flight at
\* any time, so that an updateSoundscape call starts only after the previous
\* one has completed.
C16_CyclesSerialized == Cardinality(CyclesInFlight) <= 1

\* C17: when two updateSoundscape calls were issued in order with different
\* resolvable music tracks, no load having failed, then once both have
\* completed the music layer's currentTrack and loaded sound are those of the
\* call issued later.
C17_LatestRequestWins ==
  LET n == Len(screen.issued)
  IN ( /\ screen.mounted
       /\ n = 2
       /\ CyclesInFlight = {}
       /\ failures = 0
       /\ screen.issued[1].musicTrack \in AUDIO_TRACKS
       /\ screen.issued[2].musicTrack \in AUDIO_TRACKS
       /\ screen.issued[1].musicTrack # screen.issued[2].musicTrack )
     => /\ layers["music"].currentTrack = screen.issued[2].musicTrack
        /\ layers["music"].sound # NoSound
        /\ sounds[layers["music"].sound].isLoaded
        /\ sounds[layers["music"].sound].track = screen.issued[2].musicTrack

\* C18: when stopAll, called with no other operation in flight, has completed,
\* both layers have no sound, isPlaying = false and currentTrack = null, no
\* sound is loaded any more and sfxSounds is empty.
C18_StopAllPostcondition ==
  (returned.op = "stopAll" /\ ~returned.threw)
  => /\ \A L \in LayerNames : /\ layers[L].sound = NoSound
                              /\ ~layers[L].isPlaying
                              /\ layers[L].currentTrack = NoTrack
     /\ \A h \in DOMAIN sounds : ~sounds[h].isLoaded
     /\ sfxSounds = <<>>

\* C19: cleanup on a manager that was never initialized and holds no sound
\* makes no engine call, does not throw and leaves isInitialized = false;
\* cleanup on any manager rejects only if an engine call of its stopAll
\* failed, and when it returns stopAll has run to its end (no layer holds a
\* sound, sfxSounds is empty) and isInitialized = false.
C19_CleanupSafe ==
  /\ \A c \in Callers :
       (calls[c].op = "cleanup" /\ calls[c].fresh /\ ~calls[c].wasInitialized)
       => calls[c].pc = "return" /\ Fresh /\ ~isInitialized
  /\ returned.op = "cleanup" =>
       /\ returned.threw => returned.failed /\ failures > 0
       /\ (returned.fresh /\ ~returned.wasInitialized) => ~returned.threw /\ Fresh
       /\ ~returned.threw =>
            /\ ~isInitialized
            /\ \A L \in LayerNames : layers[L].sound = NoSound
            /\ sfxSounds = <<>>

C19_Witness ==
  /\ returned.op = "cleanup"
  /\ returned.wasInitialized
  /\ ~returned.fresh
  /\ ~returned.threw
  /\ \E h \in DOMAIN sounds : sounds[h].owner = "sfx"

\* C20: the manager's audio-mode setup succeeds at most once while the manager
\* stays initialized, whatever initialize and updateSoundscape calls are made,
\* also when one starts before the initialize of another has finished.
C20_SetupAtMostOnce == audioModeSets <= 1

\* C21: when the audio-mode setup fails, initialize reports the failure to its
\* caller, and the session screen does not mark audio as initialized.
C21_InitFailureSurfaced ==
  (returned.op = "initializeAudio" /\ returned.failed)
  => returned.threw /\ ~screen.audioInitialized

\* the elements of a list at the positions from k on that are in keep, in order
RECURSIVE Kept(_, _, _)
Kept(list, keep, k) ==
  IF k > Len(list) THEN <<>>
  ELSE IF k \in keep THEN <<list[k]>> \o Kept(list, keep, k + 1)
  ELSE Kept(list, keep, k + 1)

\* the tracks of the one-shot sounds created after the first n sounds, in order
RECURSIVE SfxTracksAfter(_)
SfxTracksAfter(n) ==
  IF n >= Len(sounds) THEN <<>>
  ELSE IF sounds[n + 1].owner = "sfx"
  THEN <<sounds[n + 1].track>> \o SfxTracksAfter(n + 1)
  ELSE SfxTracksAfter(n + 1)

\* C24: the one-shot sounds an updateSoundscape call has started are, in list
\* order, exactly the requested sfx ids that are in the catalog and whose load
\* did not fail: an unknown id or a failed load is skipped, the others are
\* still started.
C24_SfxIsolation ==
  returned.op = "updateSoundscape" =>
    LET list == returned.suggestions.sfxSuggestions
        keep == {k \in DOMAIN list : list[k] \in AUDIO_TRACKS /\ k \notin returned.sfxFailed}
    IN SfxTracksAfter(returned.created) = Kept(list, keep, 1)

C24_Witness ==
  /\ returned.op = "updateSoundscape"
  /\ Len(returned.suggestions.sfxSuggestions) = 3
  /\ returned.sfxFailed = {1}
  /\ returned.suggestions.sfxSuggestions[2] \notin AUDIO_TRACKS
  /\ SfxTracksAfter(returned.created) = <<returned.suggestions.sfxSuggestions[3]>>

\* a step in which setMusicVolume / setAmbienceVolume (v) is called on layer L
SetCall(L, v) ==
  /\ calls["ui"].op = "idle"
  /\ started' = started + 1
  /\ \/ calls'["ui"].op = SetOp(L) /\ calls'["ui"].vol = v
     \/ returned'.op = SetOp(L) /\ returned'.vol = v

\* a step in which such a call returns normally after its setVolumeAsync
SetDone(L, v) ==
  /\ calls["ui"].op = SetOp(L) /\ calls["ui"].vol = v
  /\ calls'["ui"].op = "idle"
  /\ ~returned'.threw

\* a step of a setMusicVolume / setAmbienceVolume call on layer L
SetStep(L) ==
  \/ \E v \in VolumeInputs : SetCall(L, v)
  \/ calls["ui"].op = SetOp(L) /\ calls'["ui"].op = "idle"

\* C22: setMusicVolume / setAmbienceVolume(v) sets the layer's targetVolume to v
\* in the step it is called; when the layer has a sound, the call returns with
\* that sound's volume and the layer's volume at v; when it has none, the call
\* is over at once with nothing but targetVolume changed; no step of the call
\* changes the other layer or the sfx volume.
C22_SetLayerVolume ==
  [][\A L \in LayerNames :
       /\ \A v \in VolumeInputs :
            /\ SetCall(L, v) =>
                 /\ layers'[L].targetVolume = v
                 /\ layers[L].sound = NoSound =>
                      /\ layers' = [layers EXCEPT ![L].targetVolume = v]
                      /\ returned'.op = SetOp(L) /\ ~returned'.threw
                      /\ sounds' = sounds
            /\ SetDone(L, v) =>
                 /\ layers'[L].volume = v
                 /\ layers'[L].sound = calls["ui"].h
                 /\ sounds'[calls["ui"].h].volume = v
                 /\ sounds'[calls["ui"].h].isLoaded
       /\ SetStep(L) =>
            /\ layers'[OtherLayer(L)] = layers[OtherLayer(L)]
            /\ sfxVolume' = sfxVolume
            /\ sfxSounds' = sfxSounds]_vars

C22_Witness ==
  /\ returned.op = "setMusicVolume" /\ ~returned.threw
  /\ returned.h # NoSound
  /\ returned.vol = Vol(3)
  /\ layers["music"].sound = returned.h
  /\ layers["music"].volume = Vol(3) /\ layers["music"].targetVolume = Vol(3)
  /\ sounds[returned.h].volume = Vol(3)
  /\ layers["ambience"].sound # NoSound
  /\ layers["ambience"].targetVolume = Vol(5)

\* a step in which caller c calls playSoundEffect's createAsync
SfxTriggered(c) ==
  /\ calls'[c].op = "updateSoundscape" /\ calls'[c].pc = "sfx_create"
  /\ calls[c].op = "idle" \/ calls[c].pc # "sfx_create"

\* the handles of sfxSounds
ActiveSfx == {sfxSounds[n] : n \in DOMAIN sfxSounds}

\* C23: an effect's handle is created with the sfx volume of the moment its
\* playSoundEffect call asked the engine for it, whatever setSfxVolume has
\* done since; a setSfxVolume step changes no sound and no call in flight, and
\* a handle of the active set never changes its volume.
C23_SfxVolumeAtStart ==
  [][/\ \A c \in Callers :
          /\ SfxTriggered(c) => calls'[c].vol = sfxVolume
          /\ (calls[c].op # "idle" /\ calls[c].pc = "sfx_create") =>
               \/ calls'[c] = calls[c]
               \/ /\ calls'[c].pc = "sfx_return"
                  /\ \/ sounds' = sounds
                     \/ /\ Len(sounds') = Len(sounds) + 1
                        /\ sfxSounds' = Append(sfxSounds, Len(sounds'))
                        /\ sounds'[Len(sounds')].volume = calls[c].vol
     /\ sfxVolume' # sfxVolume => sounds' = sounds /\ calls' = calls /\ sfxSounds' = sfxSounds
     /\ \A h \in ActiveSfx : sounds'[h] = sounds[h]]_vars

C23_Witness ==
  /\ sfxVolume = Vol(3)
  /\ \E h1, h2 \in ActiveSfx :
       /\ sounds[h1].isLoaded /\ sounds[h1].volume = Vol(6)
       /\ sounds[h2].isLoaded /\ sounds[h2].volume = Vol(3)
       /\ h1 < h2

\* C30: when a crossfade has completed successfully (its fade-in has run to
\* its last step), the layer's volume equals its targetVolume.
C30_SteadyAtTarget ==
  \A c \in Callers :
    (calls[c].op = "updateSoundscape" /\ calls[c].pc = "cf_return"
       /\ calls[c].outcome = "done")
    => layers[calls[c].layer].volume = layers[calls[c].layer].targetVolume

\* a step in which cycle c is skipped, or in which a skipped cycle ends
SkipStep(c) ==
  \/ /\ calls[c].op = "processAudioChunk" /\ calls[c].pc # "skipped"
     /\ calls'[c].op = "processAudioChunk" /\ calls'[c].pc = "skipped"
  \/ /\ calls[c].op = "processAudioChunk" /\ calls[c].pc = "skipped"
     /\ calls'[c] # calls[c]

\* C25: a cycle whose transcription request fails or comes back empty, or
\* whose classifier call fails, appends no analysis record and never calls
\* updateSoundscape: it ends with the log, the layers and the sounds as they were.
C25_UnavailableSkipsCycle ==
  [][\A c \in Cycles :
       SkipStep(c) =>
         /\ analysisLogs' = analysisLogs
         /\ layers' = layers /\ sounds' = sounds /\ sfxSounds' = sfxSounds
         /\ screen'.issued = screen.issued
         /\ calls'[c].op \in {"processAudioChunk", "idle"}
         /\ calls[c].pc = "skipped" => calls'[c].op = "idle"]_vars

C25_Witness ==
  \E c \in Cycles :
    /\ calls[c].op = "processAudioChunk" /\ calls[c].pc = "skipped"
    /\ calls[c].outcome = "classifier"
    /\ Len(analysisLogs) = 1 /\ Len(screen.issued) = 1
    /\ \A d \in Cycles \ {c} : calls[d].op = "idle"
    /\ Steady("music", screen.issued[1].musicTrack)

\* the calls with a fade, an unload or a load under way on layer L
Crossfading(L) ==
  {c \in Callers : /\ calls[c].op = "updateSoundscape"
                   /\ calls[c].pc \in CrossfadeWork
                   /\ calls[c].layer = L}

\* C28: an updateSoundscape call that finds a crossfade in flight on a layer
\* performs no fade, unload or load on that layer: a layer never has two
\* calls at work on it.
C28_ReentrancyRule == \A L \in LayerNames : Cardinality(Crossfading(L)) <= 1

\* the looping sounds that are loaded without being their layer's sound
Leaked ==
  {h \in DOMAIN sounds : /\ sounds[h].isLooping /\ sounds[h].isLoaded
                         /\ layers[sounds[h].owner].sound # h}

\* C29: once the updateSoundscape calls of the cycles are over, every looping
\* sound that was created is the sound of its layer or has been unloaded.
C29_NoLeakedPlayback ==
  (\A c \in Cycles : calls[c].op = "idle") => Leaked = {}

\* the digits of a stored intensity are those of a 2-decimal text in [0, 1]
StoredInRange(text) ==
  /\ Len(text) = 3
  /\ \A i \in 1..3 : text[i] \in 0..9
  /\ parseFloat(text) <= 1000

\* C27, as the specification states it: every smoothed tuple the route
\* replies with, and every persisted one, has an intensity in [0, 1] with at
\* most 2 decimal places.
C27_TwoDecimalsEverywhere ==
  /\ \A i \in DOMAIN analysisLogs : StoredInRange(analysisLogs[i].intensity)
  /\ response.status = 200 =>
       /\ response.analysis.intensity \in 0..1000
       /\ response.analysis.intensity % 10 = 0

\* C27, amended: every smoothed and every persisted intensity is in [0, 1];
\* every persisted intensity has at most 2 decimal places, and so has every
\* smoothed intensity computed from a non-empty window (on an empty window
\* the smoothed tuple is the classifier's own, unrounded).
C27_IntensityRange ==
  /\ \A i \in DOMAIN analysisLogs : StoredInRange(analysisLogs[i].intensity)
  /\ response.status = 200 =>
       /\ response.analysis.intensity \in 0..1000
       /\ Len(response.recentAnalyses) > 0 => response.analysis.intensity % 10 = 0

C27_Witness ==
  /\ response.status = 200
  /\ Len(response.recentAnalyses) > 0
  /\ response.ai.intensity = 333
  /\ response.analysis.intensity % 10 = 0
  /\ response.analysis.intensity \notin {330, 900}
  /\ analysisLogs[1].intensity = <<0, 3, 3>>
  /\ analysisLogs[1].sessionId = response.sessionId

\* C26: the volumes a fade-out applies never increase and end at exactly 0;
\* the volumes a fade-in applies start at 0, never decrease and end at
\* exactly the targetVolume the ramp spans.
C26_RampsMonotonic ==
  /\ (ramp.kind = "fadeOut" /\ ramp.applied >= 2) => Leq(ramp.volume, ramp.previous)
  /\ (ramp.kind = "fadeIn" /\ ramp.applied >= 2) => Leq(ramp.previous, ramp.volume)
  /\ (ramp.kind = "fadeIn" /\ ramp.applied = 1) => ramp.volume = Zero
  /\ (ramp.kind = "fadeOut" /\ ramp.applied = Steps + 1) => ramp.volume = Zero
  /\ (ramp.kind = "fadeIn" /\ ramp.applied = Steps + 1) => ramp.volume = ramp.span

\* C37: every music id, ambience id and sfx id the selector returns is a key
\* of the manager's catalog AUDIO_TRACKS.
C37_CatalogConsistency ==
  selection # NoResult =>
    /\ selection.musicTrack \in AUDIO_TRACKS
    /\ selection.ambientTrack \in AUDIO_TRACKS
    /\ \A k \in DOMAIN selection.sfxSuggestions : selection.sfxSuggestions[k] \in AUDIO_TRACKS

\* C31: while the manager is not initialized (its audio-mode setup has
\* failed), no updateSoundscape call is at a fade, an unload or a load.
C31_NoOpAfterFailedInit ==
  \A c \in Callers :
    (calls[c].op = "updateSoundscape" /\ ~isInitialized)
    => calls[c].pc \notin CrossfadeWork \cup {"sfx_create"}

\* C32: no operation of the manager rejects towards its caller.
C32_BoundaryCatchesAll == returned.op # "none" => ~returned.threw

\* C39: crossfadeTrack takes its already-playing return only on a layer that
\* has a sound: a request for a track on a layer with no sound loads it.
C39_ShortcutNeedsSound ==
  \A c \in Callers :
    (calls[c].op = "updateSoundscape" /\ calls[c].pc = "cf_return"
       /\ calls[c].outcome = "alreadyPlaying")
    => calls[c].entry.layer.sound # NoSound

\* the one-shot sounds the returned call has started are the requested sfx ids
\* that are in the catalog and did not fail to load
SfxPerformed ==
  LET list == returned.suggestions.sfxSuggestions
      keep == {k \in DOMAIN list : list[k] \in AUDIO_TRACKS /\ k \notin returned.sfxFailed}
  IN SfxTracksAfter(returned.created) = Kept(list, keep, 1)

\* C33: when updateSoundscape has returned and the crossfade of its music id
\* did not bring the track (unknown id, or a failed engine call), the ambience
\* crossfade of the selection was still made (crossfadeTrack was called for it
\* and ended; when it ended after its fade-in, the layer is Steady on the
\* ambience id) and the sfx of the selection were still started; and the sfx
\* were started when the ambience crossfade did not bring its track.
C33_PartsIsolated ==
  returned.op = "updateSoundscape" =>
    /\ (returned.parts.music \in PartFailed /\ returned.suggestions.ambientTrack # "")
         => /\ returned.parts.ambience # ""
            /\ returned.parts.ambience = "done"
                 => Steady("ambience", returned.suggestions.ambientTrack)
            /\ returned.parts.ambience = "notFound"
                 => returned.suggestions.ambientTrack \notin AUDIO_TRACKS
    /\ (returned.parts.music \in PartFailed \/ returned.parts.ambience \in PartFailed)
         => SfxPerformed

\* the music id is unknown, the ambience is loaded and the effect started
C33_Witness ==
  /\ returned.op = "updateSoundscape"
  /\ returned.parts.music = "notFound"
  /\ returned.parts.ambience = "done"
  /\ Steady("ambience", "forest-birds")
  /\ SfxTracksAfter(returned.created) = <<"door-creak">>

\* the tuple a stored row holds, its intensity read back as a number
storedTuple(row) ==
  [mood |-> row.mood, setting |-> row.setting, intensity |-> parseFloat(row.intensity),
   narrativeEvent |-> row.narrativeEvent]

\* the mood, setting, intensity and narrativeEvent of an analysis
tupleOf(analysis) ==
  [mood |-> analysis.mood, setting |-> analysis.setting, intensity |-> analysis.intensity,
   narrativeEvent |-> analysis.narrativeEvent]

\* C35, as the specification states it: no step of the route changes or
\* removes a row of analysis_logs; a
\* step adds at most one row, only as an analyze request succeeds, and the
\* row holds the request's session, the raw transcript and the smoothed
\* tuple the request replies with; a 404 reply adds nothing.
C35_AppendOnlySmoothed ==
  [][/\ Len(analysisLogs') \in {Len(analysisLogs), Len(analysisLogs) + 1}
     /\ SubSeq(analysisLogs', 1, Len(analysisLogs)) = analysisLogs
     /\ Len(analysisLogs') = Len(analysisLogs) + 1 =>
          LET row == analysisLogs'[Len(analysisLogs')]
          IN /\ response'.status = 200
             /\ response'.savedAnalysis = Len(analysisLogs')
             /\ row.sessionId = response'.sessionId
             /\ row.sessionId \in DOMAIN sessions
             /\ row.transcription = response'.transcription
             /\ storedTuple(row) = tupleOf(response'.analysis)
     /\ (response' # response /\ response'.status # 200) => analysisLogs' = analysisLogs
    ]_vars

\* C35, amended: no step of the route (analyze, end, history, start) changes
\* or removes a row of analysis_logs; a step adds at most one row, only as
\* an analyze request succeeds, and the row holds the request's session, the
\* raw transcript, the smoothed mood, setting and narrativeEvent, and the
\* smoothed intensity as the numeric(3, 2) column keeps it, rounded to two
\* decimals; a 404 reply adds nothing.
C35_AppendOnlyStabilized ==
  [][/\ Len(analysisLogs') \in {Len(analysisLogs), Len(analysisLogs) + 1}
     /\ SubSeq(analysisLogs', 1, Len(analysisLogs)) = analysisLogs
     /\ Len(analysisLogs') = Len(analysisLogs) + 1 =>
          LET row == analysisLogs'[Len(analysisLogs')]
              analysis == response'.analysis
          IN /\ response'.status = 200
             /\ response'.savedAnalysis = Len(analysisLogs')
             /\ row.sessionId = response'.sessionId
             /\ row.sessionId \in DOMAIN sessions
             /\ row.transcription = response'.transcription
             /\ row.mood = analysis.mood
             /\ row.setting = analysis.setting
             /\ row.narrativeEvent = analysis.narrativeEvent
             /\ row.intensity = numeric32(intensityToString(analysis.intensity))
     /\ (response' # response /\ response'.status # 200) => analysisLogs' = analysisLogs
    ]_vars

\* a request whose smoothed tuple is not the classifier's has stored the
\* smoothed one, after another row, in a session that has been ended
C35_Witness ==
  /\ response.status = 200
  /\ "analysis" \in DOMAIN response
  /\ response.savedAnalysis = Len(analysisLogs)
  /\ Len(analysisLogs) >= 2
  /\ tupleOf(response.analysis).narrativeEvent # tupleOf(response.ai).narrativeEvent
  /\ storedTuple(analysisLogs[response.savedAnalysis]) = tupleOf(response.analysis)
  /\ sessions[response.sessionId].endedAt

\* the rows of a session, oldest first
sessionRows(logs, sessionId) == SelectSeq(logs, LAMBDA r : r.sessionId = sessionId)

\* the last min(limit, n) of a session's n rows, oldest first
mostRecent(logs, sessionId, limit) ==
  LET mine == sessionRows(logs, sessionId)
      size == IF Len(mine) < limit THEN Len(mine) ELSE limit
  IN [j \in 1..size |-> mine[Len(mine) - size + j]]

\* C34: in every analyze cycle the window the smoother is called with is the
\* min(5, n) most recently stored rows of the request's session, n the
\* number stored when the smoother is called, oldest first.
C34_WindowIsMostRecent ==
  [][(response' # response /\ response'.status = 200)
       => response'.recentAnalyses
            = mostRecent(analysisLogs, response'.sessionId, WindowLimit)]_vars

\* C36: no effect that has played to its end is in sfxSounds, and every
\* effect that is still loaded is in sfxSounds (none is dropped from it
\* without being unloaded), whatever the interleaving of finish callbacks,
\* new effects and stopAll.
C36_SfxSetMembership ==
  \A h \in DOMAIN sounds :
    sounds[h].owner = "sfx" =>
      /\ sounds[h].finished => h \notin ActiveSfx
      /\ sounds[h].isLoaded => h \in ActiveSfx

\* C38: once stopAll (End Session) or cleanup (unmount) has been called and
\* it and every cycle are over, no layer has a sound and sfxSounds is empty.
C38_TeardownFinal ==
  (screen.teardown # "none" /\ \A c \in Callers : calls[c].op = "idle")
  => /\ \A L \in LayerNames : layers[L].sound = NoSound
     /\ sfxSounds = <<>>
====
